---------------------------- MODULE Spec2Model ----------------------------
(***************************************************************************)
(* Cross-screen projectile protocol of shoot.py: the message channel       *)
(* (MessageServer / MultiMessageClient), the trajectory synchroniser       *)
(* (on_cat_clicked, ControlPanel._run_action, the shoot_projectile         *)
(* functions) and the projectile animator (ProjectileOverlay,              *)
(* _active_projectiles).                                                   *)
(*                                                                         *)
(* Numbers.  The program computes in IEEE doubles over normalised screen   *)
(* coordinates.  The model computes in fixed point: a coordinate is an     *)
(* integer number of 1/Unit, a time an integer number of 1/TimeRes         *)
(* seconds, a velocity is in (1/Unit) per second and g in (1/Unit) per     *)
(* second squared.  Every float division rounds to the nearest fixed-point *)
(* value (FDiv).                                                           *)
(***************************************************************************)
EXTENDS Integers, Sequences, FiniteSets, TLC

(***************************************************************************)
(* Resolution of the fixed-point arithmetic and the screen.                *)
(***************************************************************************)
Unit == 10000
TimeRes == 10000
MsPerSec == 1000
ScreenW == 1000
ScreenH == 800

(***************************************************************************)
(* Program constants.                                                      *)
(***************************************************************************)
MAX_ACTIVE_PROJECTILES == 16
XExitRight == 10500
XExitLeft == -500
LandFloor == 500
LandNyMin == 500
LandNyMax == 9500
LandMargin == 200
LandHighDefault == 9000
LandWiden == 1000

(***************************************************************************)
(* Bounds of the model.                                                    *)
(***************************************************************************)
(* processes *)
NProcs == 2
(* shots (launches and received messages) of Spec *)
MaxShots == 2
(* SpecNet: launches happen while fewer shots than this exist *)
MaxLaunches == 1
(* shots of SpecCap, one more than the cap *)
MaxCapShots == 17
(* SpecCap: messages are received while fewer shots than this exist *)
MaxCapEarly == 1
(* the step of the clock in SpecCap and in the other specifications *)
CapStep == 6000
TimeStep == 2750
(* the draw of random.uniform is u / UDen *)
UDen == 2
(* SpecMesh: the launching process 1 and its peers *)
NNodes == 3
(* SpecMesh: launches happen while fewer shots than this exist *)
MaxMeshShots == 1
(* the longest text of the framing checks *)
MaxText == 3
(* SpecLaunch: launches happen while fewer shots than this exist *)
MaxGridShots == 1
(* SpecArrive: the lines that arrive *)
MaxArriveShots == 2
(* SpecHandle: the lines that arrive and the launches *)
MaxHandleLines == 2
(* SpecServer: the start() and stop() calls, and the launches *)
MaxServerCalls == 3
MaxServerShots == 1
(* SpecDir: the Added events the service browser delivers *)
MaxAdded == 3
(* SpecDir: the instance ids one host advertises under, one after another *)
NIncarnations == 2
(* SpecFault: the lines that arrive *)
MaxFaultLines == 2
(* SpecFrame: the bytes one socket receives and the bytes of one read *)
MaxStream == 3
MaxChunk == 2

Procs == 1..NProcs

Max(a, b) == IF a >= b THEN a ELSE b
Min(a, b) == IF a <= b THEN a ELSE b

(* every process that can exist; those outside Procs run in SpecMesh only *)
Nodes == 1..Max(NProcs, NNodes)

(* a / b for b > 0, rounded to the nearest integer *)
RDiv(a, b) == (2 * a + b) \div (2 * b)
(* a / b for b # 0, rounded to the nearest integer *)
FDiv(a, b) == IF b > 0 THEN RDiv(a, b) ELSE RDiv(-a, -b)

RECURSIVE SqrtSearch(_, _, _)
SqrtSearch(n, lo, hi) ==
    IF lo >= hi THEN lo
    ELSE LET mid == (lo + hi + 1) \div 2
         IN  IF mid * mid <= n THEN SqrtSearch(n, mid, hi)
             ELSE SqrtSearch(n, lo, mid - 1)

(* math.sqrt on a fixed-point square: the nearest integer to sqrt(n) *)
Sqrt(n) ==
    LET s == SqrtSearch(n, 0, 46340)
    IN  IF n - s * s > s THEN s + 1 ELSE s

(* an optional value (Python None or a value) *)
None == << >>
Some(v) == << v >>
IsNone(o) == o = << >>
Val(o) == o[1]
(* a JSON value that int() and float() do not convert, such as "soon" *)
Unconvertible == << 0, 0 >>

(***************************************************************************)
(* Kinematics                                                              *)
(***************************************************************************)
(* x0 + vx*t *)
PosX(x0, vx, t) == x0 + RDiv(vx * t, TimeRes)
(* y0 + vy*t + 0.5*g*t*t *)
PosY(y0, vy, g, t) ==
    y0 + RDiv(vy * t, TimeRes) + RDiv(RDiv(g * t, TimeRes) * t, 2 * TimeRes)
(* vy + g*t *)
VelY(vy, g, t) == vy + RDiv(g * t, TimeRes)

(* ProjectileOverlay._pos_at: the pixel of a normalised position *)
PixX(x) == RDiv(x * ScreenW, Unit)
PixY(y) == RDiv(y * ScreenH, Unit)
(* QRect.contains of the screen's available geometry (left = top = 0) *)
GeoContains(px, py) == px >= 0 /\ px <= ScreenW - 1 /\ py >= 0 /\ py <= ScreenH - 1

(* the discriminant b*b - 4*a*c of the landing equation, a = g/2 *)
LandingDisc(y0, vy, g, y_land) == vy * vy - 2 * g * (y0 - y_land)

(* a mutant: the smaller root *)
LandingRootSmaller(y0, vy, g, y_land) ==
    LET s  == Sqrt(LandingDisc(y0, vy, g, y_land))
        t1 == FDiv((-vy - s) * TimeRes, g)
        t2 == FDiv((-vy + s) * TimeRes, g)
    IN  Min(t1, t2)
(* the larger root of the landing equation, not clamped (disc >= 0, g # 0) *)
LandingRoot(y0, vy, g, y_land) ==
    LET s  == Sqrt(LandingDisc(y0, vy, g, y_land))
        t1 == FDiv((-vy - s) * TimeRes, g)
        t2 == FDiv((-vy + s) * TimeRes, g)
    IN  Max(t1, t2)

(* a mutant: the solver without its branch for g = 0 *)
solve_quadratic_only(y0, vy, g, y_land) ==
    IF g = 0 \/ LandingDisc(y0, vy, g, y_land) < 0 THEN 0
    ELSE Max(0, LandingRoot(y0, vy, g, y_land))
_solve_landing_time(y0, vy, g, y_land) ==
    IF g = 0
    THEN IF vy = 0 THEN 0
         ELSE Max(0, FDiv(-(y0 - y_land) * TimeRes, vy))
    ELSE IF LandingDisc(y0, vy, g, y_land) < 0 THEN 0
         ELSE Max(0, LandingRoot(y0, vy, g, y_land))

(***************************************************************************)
(* Trajectory synchroniser: the receiving side                             *)
(***************************************************************************)
(* What a shoot_projectile_remote_arrive call decided: res is "error" (an  *)
(* error string is returned), "discard" (None is returned and nothing is   *)
(* scheduled), "spawn" (QTimer.singleShot(start_delay_ms, _spawn)) or      *)
(* "raise" (an exception left the call).                                   *)
(* t_solve is what _solve_landing_time returned, t_enter the time at which  *)
(* the projectile crosses into the visible frame, and real says whether    *)
(* the landing equation has a real solution.                               *)
Arrival(res, delay, x0, y0, vx, vy, g, t_end, t_land, t_solve, t_enter, real) ==
    [res |-> res, delay |-> delay, x0 |-> x0, y0 |-> y0, vx |-> vx, vy |-> vy,
     g |-> g, t_end |-> t_end, t_land |-> t_land, t_solve |-> t_solve,
     t_enter |-> t_enter, real |-> real]

(* the landing equation 0.5*g*t^2 + vy*t + (y0 - y_land) = 0 has a real    *)
(* solution                                                                *)
HasRealSolution(y0, vy, g, y_land) ==
    IF g = 0 THEN vy # 0 \/ y0 = y_land
    ELSE LandingDisc(y0, vy, g, y_land) >= 0

(* time from the sender's start until x = x_exit, clamped at 0 *)
ExitTime(sx, vx, x_exit) == Max(0, FDiv((x_exit - sx) * TimeRes, vx))

(* a mutant: int(t * 1000.0) *)
ToMsTruncated(t) == (t * MsPerSec) \div TimeRes
(* int(round(t * 1000.0)) *)
ToMs(t) == RDiv(t * MsPerSec, TimeRes)
(* a QTimer interval of ms milliseconds, as a time *)
FromMs(ms) == ms * (TimeRes \div MsPerSec)

(* a mutant: no delay when the message has none *)
StartDelayNoDefault(start_delay_ms, t_exit) ==
    IF IsNone(start_delay_ms) THEN 0 ELSE Max(0, Val(start_delay_ms))
(* start_delay_ms after lines 2181-2184 *)
StartDelay(start_delay_ms, t_exit) ==
    IF IsNone(start_delay_ms) THEN ToMs(t_exit) ELSE Max(0, Val(start_delay_ms))
(* int(start_delay_ms), lines 2184 and 2319, stands outside any try *)
DelayRaises(start_delay_ms) == start_delay_ms = Unconvertible

(* y_land after lines 2198-2205 *)
LandY(land_ny, sy) ==
    IF IsNone(land_ny) THEN sy
    ELSE Max(LandNyMin, Min(LandNyMax, IF land_ny = Unconvertible THEN sy ELSE Val(land_ny)))

(* t_land after lines 2207-2209: the solver's time raised to the floor *)
FlooredLandTime(t) == IF t <= LandFloor THEN LandFloor ELSE t

(* the test against zero instead of the time of entry *)
LandsAtOnce(t_land, t_enter) == t_land <= 0
(* the test of lines 2215 and 2350 *)
LandsBeforeVisible(t_land, t_enter) == t_land <= t_enter

(* lines 2171-2220 and 2306-2355, after the sign test on vx; x_exit is the *)
(* sender's exit boundary, x_entry the edge the projectile enters at and   *)
(* x_visible the edge of the visible frame it crosses first                *)
RemoteArrive(sx, sy, vx, vy0, g, start_delay_ms, land_ny, x_exit, x_entry, x_visible) ==
    LET t_exit        == ExitTime(sx, vx, x_exit)
        delay         == StartDelay(start_delay_ms, t_exit)
        y_exit        == PosY(sy, vy0, g, t_exit)
        vy_exit       == VelY(vy0, g, t_exit)
        y_land        == LandY(land_ny, sy)
        t_solve       == _solve_landing_time(y_exit, vy_exit, g, y_land)
        t_land        == FlooredLandTime(t_solve)
        t_enter       == FDiv((x_visible - x_entry) * TimeRes, vx)
        t_exit_screen == FDiv((x_exit - x_entry) * TimeRes, vx)
        res           == IF DelayRaises(start_delay_ms) THEN "raise"
                         ELSE IF LandsBeforeVisible(t_land, t_enter) THEN "discard"
                         ELSE "spawn"
    IN  Arrival(res, delay, x_entry, y_exit, vx, vy_exit, g,
                Min(t_land, t_exit_screen), t_land, t_solve, t_enter,
                HasRealSolution(y_exit, vy_exit, g, y_land))

NoArrival(res) == Arrival(res, 0, 0, 0, 0, 0, 0, 0, 0, 0, 0, TRUE)
Rejected == NoArrival("error")

shoot_projectile_remote_arrive_left(sx, sy, vx, vy0, g, start_delay_ms, land_ny) ==
    IF vx <= 0 THEN Rejected
    ELSE RemoteArrive(sx, sy, vx, vy0, g, start_delay_ms, land_ny,
                      XExitRight, XExitLeft, 0)

(* the sign test of line 2302 reduced to a test for zero *)
arrive_right_any_sign(sx, sy, vx, vy0, g, start_delay_ms, land_ny) ==
    IF vx = 0 THEN Rejected
    ELSE RemoteArrive(sx, sy, vx, vy0, g, start_delay_ms, land_ny,
                      XExitLeft, XExitRight, Unit)

shoot_projectile_remote_arrive_right(sx, sy, vx, vy0, g, start_delay_ms, land_ny) ==
    IF vx >= 0 THEN Rejected
    ELSE RemoteArrive(sx, sy, vx, vy0, g, start_delay_ms, land_ny,
                      XExitLeft, XExitRight, Unit)

(* the cannon branch of ControlPanel._run_action, lines 2546-2588 *)
CannonArrival(m) ==
    IF m.direction = "right_to_left"
    THEN shoot_projectile_remote_arrive_right(m.sx, m.sy, m.vx, m.vy, m.g,
                                              m.delay_ms, m.land_ny)
    ELSE shoot_projectile_remote_arrive_left(m.sx, m.sy, m.vx, m.vy, m.g,
                                             m.delay_ms, m.land_ny)

(* _maybe_explode without the comparison of _t_end and _t_land *)
MaybeExplodeInFrame(t_end, t_land, px, py) == GeoContains(px, py)

(* _maybe_explode's condition, lines 2239 and 2374: 1e-6 s is below the   *)
(* resolution of the model's time, and t_end <= t_land                    *)
_maybe_explode(t_end, t_land, px, py) == t_end >= t_land /\ GeoContains(px, py)

(***************************************************************************)
(* Trajectory synchroniser: the launching side (on_cat_clicked)            *)
(***************************************************************************)
(* vy = -math.sqrt(max(0.0, 2.0 * g * peak_h)) *)
LaunchVy(g, peak_h) == -Sqrt(Max(0, 2 * g * peak_h))

(* y_min_exit, lines 2856 and 2897 *)
YMinExit(y_exit, vy_exit, g) ==
    IF g > 0 THEN y_exit - (vy_exit * vy_exit + g) \div (2 * g) ELSE y_exit

(* a mutant: low without the margin above the lowest reachable height *)
LandLowNoMargin(y_min_exit) == Max(LandNyMin, Min(LandNyMax, y_min_exit))
(* low and high, lines 2858-2861 and 2899-2902 *)
LandLow(y_min_exit) == Max(LandNyMin, Min(LandNyMax, y_min_exit + LandMargin))
LandHigh(low) == IF low >= LandHighDefault THEN Min(LandNyMax, low + LandWiden)
                 ELSE LandHighDefault

(* random.uniform(low, high), the random number being u / UDen *)
Uniform(low, high, u) == low + RDiv(u * (high - low), UDen)

(* The message on_cat_clicked builds for a launch at (sx, sy) with the     *)
(* drawn g, peak_h, speed (|vx|) and u (the draw of land_ny); launch is    *)
(* the identity of the launch, carried to follow the message.              *)
CannonMsg(dir, inp, launch) ==
    LET vy      == LaunchVy(inp.g, inp.peak_h)
        vx      == IF dir = "right_to_left" THEN -inp.speed ELSE inp.speed
        x_exit  == IF dir = "right_to_left" THEN XExitLeft ELSE XExitRight
        t_exit  == ExitTime(inp.sx, vx, x_exit)
        y_exit  == PosY(inp.sy, vy, inp.g, t_exit)
        vy_exit == VelY(vy, inp.g, t_exit)
        low     == LandLow(YMinExit(y_exit, vy_exit, inp.g))
        high    == LandHigh(low)
    IN  [form |-> "object", unfloat |-> {}, extra |-> {}, target |-> "arc", x |-> 0, y |-> 0,
         action |-> "cannon", sx |-> inp.sx, sy |-> inp.sy, vx |-> vx, vy |-> vy,
         g |-> inp.g, delay_ms |-> Some(ToMs(t_exit)), direction |-> dir,
         land_ny |-> Some(Uniform(low, high, inp.u)), launch |-> launch]

(* The text of a number in the JSON line: its sign and its decimal digits, *)
(* in units of 1/Unit.                                                     *)
RECURSIVE DigitsOf(_)
DigitsOf(n) == IF n < 10 THEN << n >> ELSE Append(DigitsOf(n \div 10), n % 10)
RECURSIVE ValueOf(_)
ValueOf(ds) ==
    IF ds = << >> THEN 0
    ELSE 10 * ValueOf(SubSeq(ds, 1, Len(ds) - 1)) + ds[Len(ds)]

(* a mutant: the number written with two decimals *)
float_2dp(v) ==
    [neg |-> v < 0, digits |-> DigitsOf(((IF v < 0 THEN -v ELSE v) \div 100) * 100)]
(* float.__repr__, which json.dumps writes a float with: the shortest text *)
(* that reads back as the same float                                       *)
float_repr(v) == [neg |-> v < 0, digits |-> DigitsOf(IF v < 0 THEN -v ELSE v)]
(* the float that json.loads and float() make of the text of a number *)
float_of(text) == IF text.neg THEN -ValueOf(text.digits) ELSE ValueOf(text.digits)

(* json.dumps(data), lines 2875 and 2916: the numbers of the payload as text *)
json_dumps(data) ==
    [data EXCEPT !.sx = float_repr(@), !.sy = float_repr(@), !.vx = float_repr(@),
                 !.vy = float_repr(@), !.g = float_repr(@),
                 !.land_ny = Some(float_repr(Val(@)))]
(* json.loads(line) and the float() calls of lines 2549-2553, 2199 and 2334 *)
json_loads(line) ==
    [line EXCEPT !.sx = float_of(@), !.sy = float_of(@), !.vx = float_of(@),
                 !.vy = float_of(@), !.g = float_of(@),
                 !.land_ny = Some(float_of(Val(@)))]
(* A line in flight is held as what its reader parses from it. *)
OnWire(data) == json_loads(json_dumps(data))

(* What a shoot_projectile_local_exit call decided: "error" or "spawn".    *)
shoot_projectile_local_exit_right(sx, sy, vx, vy, g) ==
    IF vx <= 0 THEN Rejected
    ELSE LET t_end == FDiv((XExitRight - sx) * TimeRes, vx)
         IN  IF t_end <= 0 THEN Rejected
             ELSE Arrival("spawn", 0, sx, sy, vx, vy, g, t_end, 0, 0, 0, TRUE)

(* speed_mult is select_projectile_type().speed_multiplier, in tenths *)
shoot_projectile_local_exit_left(sx, sy, vx0, vy, g, speed_mult) ==
    LET vx == RDiv(vx0 * speed_mult, 10)
    IN  IF vx >= 0 THEN Rejected
        ELSE LET t_end == FDiv((XExitLeft - sx) * TimeRes, vx)
             IN  IF t_end <= 0 THEN Rejected
                 ELSE Arrival("spawn", 0, sx, sy, vx, vy, g, t_end, 0, 0, 0, TRUE)

(* the local effect of on_cat_clicked, lines 2878 and 2919 *)
LocalExit(dir, m, speed_mult) ==
    IF dir = "right_to_left"
    THEN shoot_projectile_local_exit_left(m.sx, m.sy, m.vx, m.vy, m.g, speed_mult)
    ELSE shoot_projectile_local_exit_right(m.sx, m.sy, m.vx, m.vy, m.g)

(***************************************************************************)
(* State                                                                   *)
(***************************************************************************)
VARIABLES
    shots,       (* every shot so far: its ProjectileOverlay and its history *)
    active,      (* _active_projectiles of each process: shot ids, oldest first *)
    deferred,    (* the deleteLater() events posted in each process, in order *)
    shootDir,    (* _SHOOT_DIRECTION of each process *)
    outSock,     (* MultiMessageClient._clients: the socket state per peer *)
    backlog,     (* connections established and not yet accepted by the server *)
    srvClients,  (* MessageServer._clients: the dialers of the accepted sockets *)
    c2s,         (* lines written by a dialer's socket, not yet read by the server *)
    s2c,         (* lines written by a server's socket, not yet read by the dialer *)
    dead,        (* the TCP connections that have broken *)
    status,      (* the status_changed emissions of each process's server and client *)
    dials,       (* the connectToHost calls of each process, per peer *)
    arrived,     (* the bytes each socket has received so far *)
    rx_buf,      (* _rx_buf of each accepted socket and of each MessageClient *)
    emitted,     (* the message_received emissions, in order, with their socket *)
    announced,   (* the Added events delivered to each process, per service record *)
    resolving,   (* the _resolve threads of each process, per service record *)
    peerQ,       (* the peer_found emissions not yet delivered to on_peer *)
    found,       (* the peer_found emissions of each process, per service record *)
    solved,      (* the last call of _solve_landing_time made on its own: arguments and result *)
    effects,     (* the show_explosion and shoot_cannon_to calls of _run_action, in order *)
    closed,      (* ZeroConfP2P._closed of each process *)
    listening,   (* MessageServer._listening of each process *)
    calls        (* the start() and stop() calls made on the server of process 1: their
                    number, the last of them and what it returned *)

shotVars == << shots, active, deferred >>
rxVars == << arrived, rx_buf, emitted >>
dirVars == << announced, resolving, peerQ, found >>
netVars == << outSock, backlog, srvClients, c2s, s2c, dead, status, dials, rxVars, dirVars,
             solved, closed, listening, calls >>
vars == << shots, active, deferred, shootDir, outSock, backlog, srvClients, c2s, s2c,
          dead, status, dials, arrived, rx_buf, emitted, announced, resolving, peerQ, found,
          solved, effects, closed, listening, calls >>

Conns == Nodes \X Nodes
(* A service record: the process at host advertises under instance id     *)
(* << host, n >>; a process that is started again takes a new id, its host *)
(* and port stay.  Every process listens on port 50505, so a host stands   *)
(* for the pair (host, port).  The running processes are the incarnations  *)
(* 1; nobody advertises an older instance of the process that is browsing. *)
ServiceRecord(host, n) == [name |-> << host, n >>, id |-> << host, n >>, host |-> host]
ServiceRecords == { ServiceRecord(h, n) : h \in Nodes, n \in 1..NIncarnations }
instance_id(p) == << p, 1 >>
RecordsSeenBy(p) == { r \in ServiceRecords : r.host = p => r.id = instance_id(p) }

(* a socket: the accepted one ("server") or the dialling one ("client") of *)
(* a connection                                                            *)
Socks == { "server", "client" } \X Conns

(* the line is no JSON object, or a number of its payload does not convert *)
IsMalformed(m) ==
    \/ m.form # "object" \/ m.unfloat # {}
    \/ m.delay_ms = Unconvertible \/ m.land_ny = Unconvertible

(* A shot: kind is "local" or "remote"; launch is the launch it stems from *)
(* (0: a message of a peer outside the model), dir and mvx the direction   *)
(* and vx of its message, malformed whether its line was no JSON object or *)
(* held a number that does not convert; st is "invalid" (the line was      *)
(* logged as invalid), "raised" (an exception left the handler),           *)
(* "rejected" (an error                                                    *)
(* was returned), "discarded" (None was returned, nothing scheduled),      *)
(* "scheduled" (the one-shot timer runs, delay is what is left of it),     *)
(* "live" (the ProjectileOverlay exists) or "deleted"; timer is the        *)
(* overlay's QTimer running; age is the time since the overlay was built,  *)
(* mdelay the delay_ms of the message and waited the time since the        *)
(* one-shot timer was started.                                             *)
(* History: evicted (dropped by _drop_oldest), fin (finished emissions),   *)
(* imp (show_explosion calls), late (a tick ran after finished).           *)
NewShot(p, kind, m, a, st) ==
    [proc |-> p, kind |-> kind, launch |-> m.launch, st |-> st,
     dir |-> m.direction, mvx |-> m.vx, mdelay |-> m.delay_ms, waited |-> 0,
     malformed |-> IsMalformed(m),
     t_solve |-> a.t_solve, t_enter |-> a.t_enter, real |-> a.real,
     x0 |-> a.x0, y0 |-> a.y0, vx |-> a.vx, vy |-> a.vy, g |-> a.g,
     t_end |-> Max(0, a.t_end), t_land |-> a.t_land, delay |-> FromMs(a.delay),
     age |-> 0, timer |-> (st = "live"), allow_kill |-> (kind = "remote"),
     evicted |-> FALSE, fin |-> 0, imp |-> 0, late |-> FALSE]

ShotIds == 1..Len(shots)

InSeq(x, q) == \E i \in 1..Len(q) : q[i] = x
RemoveFrom(q, x) == SelectSeq(q, LAMBDA y : y # x)
(* QObject.deleteLater: one pending deletion per object *)
PostDelete(q, x) == IF InSeq(x, q) THEN q ELSE Append(q, x)

Init ==
    /\ shots = << >>
    /\ active = [p \in Nodes |-> << >>]
    /\ deferred = [p \in Nodes |-> << >>]
    /\ shootDir = [p \in Nodes |-> "left_to_right"]
    /\ outSock = [p \in Nodes |-> [q \in Nodes |-> "absent"]]
    /\ backlog = [p \in Nodes |-> << >>]
    /\ srvClients = [p \in Nodes |-> << >>]
    /\ c2s = [c \in Conns |-> << >>]
    /\ s2c = [c \in Conns |-> << >>]
    /\ dead = {}
    /\ status = [p \in Nodes |-> {}]
    /\ dials = [p \in Nodes |-> [q \in Nodes |-> 0]]
    /\ arrived = [k \in Socks |-> << >>]
    /\ rx_buf = [k \in Socks |-> << >>]
    /\ emitted = << >>
    /\ announced = [p \in Nodes |-> [r \in ServiceRecords |-> 0]]
    /\ resolving = [p \in Nodes |-> [r \in ServiceRecords |-> 0]]
    /\ peerQ = [p \in Nodes |-> << >>]
    /\ found = [p \in Nodes |-> [r \in ServiceRecords |-> 0]]
    /\ solved = None
    /\ effects = << >>
    /\ closed = [p \in Nodes |-> FALSE]
    /\ listening = [p \in Nodes |-> TRUE]
    /\ calls = [n |-> 0, op |-> "start", ret |-> TRUE]

(***************************************************************************)
(* Projectile animator                                                     *)
(***************************************************************************)
(* the test of lines 2139, 2232, 2274 and 2367 *)
AtCap(n) == n >= MAX_ACTIVE_PROJECTILES

(* pop() instead of pop(0) *)
drop_newest(overlays) ==
    IF overlays = << >> THEN [victim |-> None, rest |-> overlays]
    ELSE [victim |-> Some(overlays[Len(overlays)]),
          rest |-> SubSeq(overlays, 1, Len(overlays) - 1)]

(* _drop_oldest: the overlay it pops and closes, and the list it leaves *)
_drop_oldest(overlays) ==
    IF overlays = << >> THEN [victim |-> None, rest |-> overlays]
    ELSE [victim |-> Some(Head(overlays)), rest |-> Tail(overlays)]

(* lines 2139-2141: the overlay id of process p, built in base, is added   *)
(* to _active_projectiles, the oldest being dropped at the cap             *)
AddProjectile(p, id, base) ==
    LET d == IF AtCap(Len(active[p])) THEN _drop_oldest(active[p])
             ELSE [victim |-> None, rest |-> active[p]]
    IN  /\ active' = [active EXCEPT ![p] = Append(d.rest, id)]
        /\ IF IsNone(d.victim)
           THEN shots' = base /\ UNCHANGED deferred
           ELSE /\ shots' = [base EXCEPT ![Val(d.victim)].evicted = TRUE]
                /\ deferred' = [deferred EXCEPT ![p] = PostDelete(@, Val(d.victim))]

(* finished connected to an explosion for a local overlay too *)
ExplodesAlways(s, px, py) ==
    s.kind = "local" \/ _maybe_explode(s.t_end, s.t_land, px, py)

(* finished is connected to _maybe_explode for a remote overlay only       *)
(* (lines 2242 and 2377; not in shoot_projectile_local_exit)               *)
Explodes(s, px, py) == s.kind = "remote" /\ _maybe_explode(s.t_end, s.t_land, px, py)

(* The event loop fires the timers that are due in the order of their      *)
(* expiry, and timers of equal expiry in the order of their creation: the  *)
(* overlays that _drop_oldest closed (in deferred) are older than those of *)
(* _active_projectiles, which is in the order of creation.                 *)
IndexOf(q, x) == CHOOSE k \in 1..Len(q) : q[k] = x
Born(id) ==
    LET p == shots[id].proc
    IN  IF InSeq(id, active[p]) THEN Len(deferred[p]) + IndexOf(active[p], id)
        ELSE IndexOf(deferred[p], id)
Overdue(s) == s.st = "live" /\ s.timer /\ s.age >= s.t_end
ExpiresBefore(i, j) ==
    \/ shots[i].age - shots[i].t_end > shots[j].age - shots[j].t_end
    \/ /\ shots[i].age - shots[i].t_end = shots[j].age - shots[j].t_end
       /\ Born(i) < Born(j)
FiresFirst(j) ==
    \A i \in 1..Len(shots) :
        (i # j /\ shots[i].proc = shots[j].proc /\ Overdue(shots[i]))
            => ~ExpiresBefore(i, j)

(* _tick without self._timer.stop() *)
TimerKeepsRunning == TRUE
(* the QTimer of an overlay after _tick has emitted finished *)
TimerAfterFinish == FALSE

(* a finishing branch of _tick without finished.emit *)
FinishSilently(id, px, py) ==
    /\ shots' = [shots EXCEPT ![id].timer = FALSE]
    /\ active' = [active EXCEPT ![shots[id].proc] = RemoveFrom(@, id)]
    /\ deferred' = [deferred EXCEPT ![shots[id].proc] = PostDelete(@, id)]

(* The end of _tick's two finishing branches: the timer stops, finished is *)
(* emitted at pixel (px, py) (the overlay leaves _active_projectiles; a    *)
(* remote overlay runs _maybe_explode), close() and deleteLater().         *)
Finish(id, px, py) ==
    LET s == shots[id]
        explode == Explodes(s, px, py)
    IN  /\ shots' = [shots EXCEPT ![id].timer = TimerAfterFinish,
                                  ![id].fin = Min(2, s.fin + 1),
                                  ![id].imp = IF explode THEN Min(2, s.imp + 1) ELSE s.imp,
                                  ![id].late = s.late \/ s.fin > 0]
        /\ active' = [active EXCEPT ![s.proc] = RemoveFrom(@, id)]
        /\ deferred' = [deferred EXCEPT ![s.proc] = PostDelete(@, id)]

(* what _check_kill can return for overlay id: False without allow_kill,   *)
(* else whether a cat is under the projectile                              *)
Hits(id) == IF shots[id].allow_kill THEN BOOLEAN ELSE { FALSE }

(* ProjectileOverlay._tick of overlay id; hit is what _check_kill finds *)
_tick(id, hit) ==
    LET s == shots[id]
    IN  /\ s.st = "live" /\ s.timer
        /\ IF s.age >= s.t_end
           THEN /\ FiresFirst(id)
                /\ Finish(id, PixX(PosX(s.x0, s.vx, s.t_end)),
                               PixY(PosY(s.y0, s.vy, s.g, s.t_end)))
           ELSE IF s.allow_kill /\ hit
           THEN Finish(id, PixX(PosX(s.x0, s.vx, s.age)),
                           PixY(PosY(s.y0, s.vy, s.g, s.age)))
           ELSE /\ shots' = [shots EXCEPT ![id].late = s.late \/ s.fin > 0]
                /\ UNCHANGED << active, deferred >>
        /\ UNCHANGED << shootDir, netVars, effects >>

(* the event loop delivers the oldest posted DeferredDelete of process p *)
DeferredDelete(p) ==
    /\ deferred[p] # << >>
    /\ shots' = [shots EXCEPT ![Head(deferred[p])].st = "deleted",
                              ![Head(deferred[p])].timer = FALSE,
                              ![Head(deferred[p])].age = 0]
    /\ deferred' = [deferred EXCEPT ![p] = Tail(@)]
    /\ UNCHANGED << active, shootDir, netVars, effects >>

(* _spawn run by a repeating timer instead of QTimer.singleShot *)
SpawnRepeatedly(id) ==
    /\ shots[id].kind = "remote" /\ shots[id].st \in { "scheduled", "deleted" }
    /\ shots[id].delay = 0
    /\ AddProjectile(shots[id].proc, id,
                     [shots EXCEPT ![id].st = "live", ![id].timer = TRUE])
    /\ UNCHANGED << shootDir, netVars, effects >>

(* _spawn, run by the one-shot timer of a scheduled remote shot *)
_spawn(id) ==
    /\ shots[id].st = "scheduled" /\ shots[id].delay = 0
    /\ AddProjectile(shots[id].proc, id,
                     [shots EXCEPT ![id].st = "live", ![id].timer = TRUE])
    /\ UNCHANGED << shootDir, netVars, effects >>

(* a timer that is due: it fires before time moves on *)
Due(s) ==
    \/ s.st = "scheduled" /\ s.delay = 0
    \/ s.st = "live" /\ s.timer /\ s.age >= s.t_end
Waiting(s) == s.st = "scheduled" \/ (s.st = "live" /\ s.timer)

(* dt of time passes *)
AdvanceTime(dt) ==
    /\ \A i \in ShotIds : ~Due(shots[i])
    /\ \A p \in Procs : deferred[p] = << >>
    /\ \E i \in ShotIds : Waiting(shots[i])
    /\ shots' = [i \in ShotIds |->
                   IF shots[i].st = "scheduled"
                   THEN [shots[i] EXCEPT !.delay = Max(0, @ - dt), !.waited = @ + dt]
                   ELSE IF shots[i].st = "live"
                   THEN [shots[i] EXCEPT !.age = @ + dt]
                   ELSE shots[i]]
    /\ UNCHANGED << active, deferred, shootDir, netVars, effects >>


(***************************************************************************)
(* Message channel                                                         *)
(***************************************************************************)
(* A text is a sequence of bytes; NL is the line feed, Brace an opening    *)
(* brace, standing for any other byte.                                     *)
NL == 10
Brace == 123
(* a byte no UTF-8 text contains, and U+FFFD, what decoding makes of it *)
Bad == 255
Replacement == 65533
Bytes == { NL, Brace, Bad }
Texts == UNION { [1..n -> Bytes] : n \in 0..MaxText }

(* text.rstrip("\n") *)
RECURSIVE rstrip(_)
rstrip(text) ==
    IF text # << >> /\ text[Len(text)] = NL
    THEN rstrip(SubSeq(text, 1, Len(text) - 1)) ELSE text

(* a mutant: the text is sent as it is, with one more line feed *)
EncodeAsIs(text) == text \o << NL >>
(* lines 182 and 1265: (text.rstrip("\n") + "\n").encode("utf-8") *)
Encode(text) == rstrip(text) \o << NL >>

(* A connection is <<dialer, acceptor>>.  A status_changed emission is      *)
(* <<emitter, text, peer>>: the texts are those of lines 197, 204, 1248,   *)
(* 1249, 1251, 1255 and 1263.                                              *)
Status(src, text, peer) == << src, text, peer >>
Emit(p, events) == status' = [status EXCEPT ![p] = @ \cup events]

(* a mutant: what is written to a broken connection arrives all the same *)
DeliveredAlways(c, q, m) == Append(q, m)
(* bytes written to a connection that has broken reach nobody *)
Delivered(c, q, m) == IF c \in dead THEN q ELSE Append(q, m)

(* MessageServer.broadcast: every socket of _clients in ConnectedState; a  *)
(* socket stays in _clients exactly until _on_disconnected runs, which is  *)
(* when it leaves ConnectedState                                           *)
ServerWrites(p, c) == c[2] = p /\ InSeq(c[1], srvClients[p])
(* MessageClient.send of each client of MultiMessageClient._clients: the   *)
(* write happens in ConnectedState only                                     *)
ClientWrites(p, c) == c[1] = p /\ outSock[p][c[2]] = "connected"
(* MessageClient.send, line 1263: a client that is not connected reports it *)
NotConnected(p) ==
    { Status("client", "Client not connected", q) :
        q \in { r \in Nodes : outSock[p][r] \in { "connecting", "unconnected" } } }
(* lines 2926-2928: server.broadcast(msg), then client.send(msg) *)
Broadcast(p, m) ==
    /\ s2c' = [c \in Conns |-> IF ServerWrites(p, c) THEN Delivered(c, s2c[c], m) ELSE s2c[c]]
    /\ c2s' = [c \in Conns |-> IF ClientWrites(p, c) THEN Delivered(c, c2s[c], m) ELSE c2s[c]]
    /\ Emit(p, NotConnected(p))

(* zc.peer_found -> on_peer -> MultiMessageClient.connect_to: the slot is  *)
(* a plain function connected in the main thread, so it runs there, one    *)
(* call at a time                                                          *)
(* a mutant: connect_to without the test of line 1285 *)
connect_again(p, q) ==
    /\ outSock' = [outSock EXCEPT ![p][q] = "connecting"]
    /\ dials' = [dials EXCEPT ![p][q] = @ + 1]
    /\ Emit(p, { Status("client", "Client connecting", q) })
(* MultiMessageClient.connect_to: nothing happens for a key of _clients *)
connect_to(p, q) ==
    /\ outSock' = [outSock EXCEPT ![p][q] = IF @ = "absent" THEN "connecting" ELSE @]
    /\ dials' = [dials EXCEPT ![p][q] = IF outSock[p][q] = "absent" THEN @ + 1 ELSE @]
    /\ Emit(p, IF outSock[p][q] = "absent"
               THEN { Status("client", "Client connecting", q) } ELSE {})

PeerFound(p, q) ==
    /\ p # q
    /\ connect_to(p, q)
    /\ UNCHANGED << calls, listening, closed, effects, solved, dirVars, rxVars, shotVars, shootDir, backlog, srvClients, c2s, s2c, dead >>

(***************************************************************************)
(* Peer directory: ZeroConfP2P                                             *)
(***************************************************************************)
RECURSIVE SumOver(_, _)
SumOver(f, S) ==
    IF S = {} THEN 0
    ELSE LET x == CHOOSE x \in S : TRUE IN f[x] + SumOver(f, S \ { x })

(* a mutant: two threads per event *)
StartTwoThreads(n) == n + 2
(* threading.Thread(target=_resolve, daemon=True).start(), line 1397 *)
StartThread(n) == n + 1

(* _on_service_state_change for an Added event of record r: a thread is    *)
(* started that runs _resolve; any other state change, and any after       *)
(* close(), returns at once                                                *)
_on_service_state_change(p, r, bound) ==
    /\ ~closed[p]
    /\ SumOver(announced[p], ServiceRecords) < bound
    /\ announced' = [announced EXCEPT ![p][r] = @ + 1]
    /\ resolving' = [resolving EXCEPT ![p][r] = StartThread(@)]
    /\ UNCHANGED << calls, listening, closed, effects, solved, dials, peerQ, found, shotVars, shootDir, outSock, backlog, srvClients,
                    c2s, s2c, dead, status, rxVars >>

(* a mutant: _resolve without the test of line 1386 *)
NeverOurselves(p, r) == FALSE
(* peer_id == self.instance_id, line 1386 *)
IsOurselves(p, r) == r.id = instance_id(p)

(* _resolve of record r in its thread: get_service_info returns the record *)
(* (ok) or nothing, or raises; peer_found is emitted for every record of   *)
(* another instance and reaches on_peer through the event loop             *)
_resolve(p, r, ok) ==
    /\ resolving[p][r] > 0
    /\ resolving' = [resolving EXCEPT ![p][r] = @ - 1]
    /\ IF ok /\ ~IsOurselves(p, r)
       THEN /\ peerQ' = [peerQ EXCEPT ![p] = Append(@, r)]
            /\ found' = [found EXCEPT ![p][r] = @ + 1]
       ELSE UNCHANGED << peerQ, found >>
    /\ UNCHANGED << calls, listening, closed, effects, solved, dials, announced, shotVars, shootDir, outSock, backlog, srvClients,
                    c2s, s2c, dead, status, rxVars >>

(* ZeroConfP2P.close: _closed is set, the service is unregistered, the     *)
(* Zeroconf instance and with it the browser are closed                    *)
close(p) ==
    /\ ~closed[p]
    /\ closed' = [closed EXCEPT ![p] = TRUE]
    /\ Emit(p, { Status("zeroconf", "Zeroconf stopped", p) })
    /\ UNCHANGED << calls, listening, dirVars, rxVars, shotVars, shootDir, outSock, backlog, srvClients, c2s, s2c,
                    dead, dials, solved, effects >>

(* on_peer, lines 2952-2953, for the peer_found emission delivered next *)
on_peer(p) ==
    /\ peerQ[p] # << >>
    /\ connect_to(p, Head(peerQ[p]).host)
    /\ peerQ' = [peerQ EXCEPT ![p] = Tail(@)]
    /\ UNCHANGED << calls, listening, closed, effects, solved, announced, resolving, found, shotVars, shootDir, backlog, srvClients,
                    c2s, s2c, dead, rxVars >>

(* the TCP connection of p to q's listening server is established *)
TcpEstablished(p, q) ==
    /\ outSock[p][q] = "connecting"
    /\ listening[q]
    /\ outSock' = [outSock EXCEPT ![p][q] = "connected"]
    /\ backlog' = [backlog EXCEPT ![q] = Append(@, p)]
    /\ Emit(p, { Status("client", "Client connected", q) })
    /\ UNCHANGED << calls, listening, closed, effects, solved, dials, dirVars, rxVars, shotVars, shootDir, srvClients, c2s, s2c, dead >>

(* the dial of p to q fails: errorOccurred, line 1251 *)
DialFails(p, q) ==
    /\ outSock[p][q] = "connecting"
    /\ outSock' = [outSock EXCEPT ![p][q] = "unconnected"]
    /\ Emit(p, { Status("client", "Client error", q) })
    /\ UNCHANGED << calls, listening, closed, effects, solved, dials, dirVars, rxVars, shotVars, shootDir, backlog, srvClients, c2s, s2c, dead >>

(* MessageServer._on_new_connection: every pending connection is accepted *)
_on_new_connection(q) ==
    /\ backlog[q] # << >>
    /\ srvClients' = [srvClients EXCEPT ![q] = @ \o backlog[q]]
    /\ backlog' = [backlog EXCEPT ![q] = << >>]
    /\ Emit(q, { Status("server", "Client connected", backlog[q][i]) :
                   i \in 1..Len(backlog[q]) })
    /\ UNCHANGED << calls, listening, closed, effects, solved, dials, dirVars, rxVars, shotVars, shootDir, outSock, c2s, s2c, dead >>

(* MessageServer.start of process p; ok is what QTcpServer.listen returns *)
start(p, ok, bound) ==
    /\ calls.n < bound
    /\ calls' = [n |-> calls.n + 1, op |-> "start", ret |-> (listening[p] \/ ok)]
    /\ IF listening[p]
       THEN UNCHANGED << listening, status >>
       ELSE /\ listening' = [listening EXCEPT ![p] = ok]
            /\ Emit(p, { Status("server", IF ok THEN "Server listening"
                                          ELSE "Server failed to listen", p) })
    /\ UNCHANGED << closed, effects, solved, dials, dirVars, rxVars, shotVars, shootDir, outSock,
                    backlog, srvClients, c2s, s2c, dead >>

(* a mutant: stop without disconnecting and forgetting the clients *)
stop_listening_only(p, bound) ==
    /\ calls.n < bound
    /\ calls' = [n |-> calls.n + 1, op |-> "stop", ret |-> TRUE]
    /\ IF ~listening[p]
       THEN UNCHANGED << listening, status, backlog >>
       ELSE /\ listening' = [listening EXCEPT ![p] = FALSE]
            /\ backlog' = [backlog EXCEPT ![p] = << >>]
            /\ Emit(p, { Status("server", "Server stopped", p) })
    /\ UNCHANGED << closed, effects, solved, dials, dirVars, rxVars, shotVars, shootDir, outSock,
                    srvClients, c2s, s2c, dead >>

(* MessageServer.stop of process p: every socket of _clients is            *)
(* disconnected (its disconnected signal runs _on_disconnected) and        *)
(* forgotten, the QTcpServer is closed, which drops the connections it has *)
(* not handed out yet                                                      *)
stop(p, bound) ==
    LET tracked == { << srvClients[p][i], p >> : i \in 1..Len(srvClients[p]) }
        pending == { << backlog[p][i], p >> : i \in 1..Len(backlog[p]) }
    IN  /\ calls.n < bound
        /\ calls' = [n |-> calls.n + 1, op |-> "stop", ret |-> TRUE]
        /\ IF ~listening[p]
           THEN UNCHANGED << listening, status, backlog, srvClients, c2s, dead >>
           ELSE /\ listening' = [listening EXCEPT ![p] = FALSE]
                /\ srvClients' = [srvClients EXCEPT ![p] = << >>]
                /\ backlog' = [backlog EXCEPT ![p] = << >>]
                /\ dead' = dead \cup tracked \cup pending
                /\ c2s' = [c \in Conns |-> IF c \in tracked THEN << >> ELSE c2s[c]]
                /\ Emit(p, { Status("server", "Client disconnected", c[1]) : c \in tracked }
                            \cup { Status("server", "Server stopped", p) })
        /\ UNCHANGED << closed, effects, solved, dials, dirVars, rxVars, shotVars, shootDir,
                        outSock, s2c >>

(* the established connection of d to a breaks (the peer goes away, the    *)
(* network fails); each end learns of it in its own event loop             *)
ConnBreak(d, a) ==
    /\ outSock[d][a] = "connected"
    /\ << d, a >> \notin dead
    /\ dead' = dead \cup { << d, a >> }
    /\ UNCHANGED << calls, listening, closed, effects, solved, dials, dirVars, rxVars, shotVars, shootDir, outSock, backlog, srvClients, c2s, s2c, status >>

(* MessageClient: the socket of d to a reports the loss, lines 1249 and    *)
(* 1251; the key stays in MultiMessageClient._clients                      *)
ClientDisconnected(d, a) ==
    /\ outSock[d][a] = "connected"
    /\ << d, a >> \in dead
    /\ outSock' = [outSock EXCEPT ![d][a] = "unconnected"]
    /\ s2c' = [s2c EXCEPT ![<< d, a >>] = << >>]
    /\ Emit(d, { Status("client", "Client error", a),
                 Status("client", "Client disconnected", a) })
    /\ UNCHANGED << calls, listening, closed, effects, solved, dials, dirVars, rxVars, shotVars, shootDir, backlog, srvClients, c2s, dead >>

(* MessageServer._on_disconnected of a's socket for dialer d *)
_on_disconnected(a, d) ==
    /\ InSeq(d, srvClients[a])
    /\ << d, a >> \in dead
    /\ srvClients' = [srvClients EXCEPT ![a] = RemoveFrom(@, d)]
    /\ c2s' = [c2s EXCEPT ![<< d, a >>] = << >>]
    /\ Emit(a, { Status("server", "Client disconnected", d) })
    /\ UNCHANGED << calls, listening, closed, effects, solved, dials, dirVars, rxVars, shotVars, shootDir, outSock, backlog, s2c, dead >>

(***************************************************************************)
(* Framing of the received bytes                                           *)
(***************************************************************************)
(* line.decode("utf-8", errors="replace") *)
Decode(line) == [i \in 1..Len(line) |-> IF line[i] = Bad THEN Replacement ELSE line[i]]

HasNL(rx) == \E i \in 1..Len(rx) : rx[i] = NL
FirstNL(rx) == CHOOSE i \in 1..Len(rx) : rx[i] = NL /\ \A j \in 1..(i - 1) : rx[j] # NL

(* while b"\n" in rx: line, rx = rx.split(b"\n", 1) *)
RECURSIVE SplitLoop(_, _)
SplitLoop(rx, lines) ==
    IF HasNL(rx)
    THEN SplitLoop(SubSeq(rx, FirstNL(rx) + 1, Len(rx)),
                   Append(lines, SubSeq(rx, 1, FirstNL(rx) - 1)))
    ELSE [lines |-> lines, rx |-> rx]

Tagged(k, lines) == [i \in 1..Len(lines) |-> [sock |-> k, text |-> Decode(lines[i])]]

(* a mutant: one buffer for all the sockets of the server *)
SharedBuffer(k) == rx_buf[<< "server", << 2, 1 >> >>]
(* getattr(sock, "_rx_buf", b"") *)
SocketBuffer(k) == rx_buf[k]

(* MessageServer._on_ready_read of the accepted socket k: readAll()        *)
(* returns chunk; an empty text is not emitted                             *)
MessageServer_on_ready_read(k, chunk) ==
    LET r == SplitLoop(SocketBuffer(k) \o chunk, << >>)
    IN  /\ k[1] = "server"
        /\ Len(arrived[k]) + Len(chunk) <= MaxStream
        /\ arrived' = [arrived EXCEPT ![k] = @ \o chunk]
        /\ emitted' = emitted \o Tagged(k, SelectSeq(r.lines, LAMBDA l : l # << >>))
        /\ rx_buf' = [rx_buf EXCEPT ![k] = r.rx]
        /\ UNCHANGED << calls, listening, closed, effects, solved, dials, dirVars, shotVars, shootDir, outSock, backlog, srvClients, c2s, s2c,
                        dead, status >>

(* MessageClient._on_ready_read of the dialling socket k *)
MessageClient_on_ready_read(k, chunk) ==
    LET r == SplitLoop(rx_buf[k] \o chunk, << >>)
    IN  /\ k[1] = "client"
        /\ Len(arrived[k]) + Len(chunk) <= MaxStream
        /\ arrived' = [arrived EXCEPT ![k] = @ \o chunk]
        /\ emitted' = emitted \o Tagged(k, r.lines)
        /\ rx_buf' = [rx_buf EXCEPT ![k] = r.rx]
        /\ UNCHANGED << calls, listening, closed, effects, solved, dials, dirVars, shotVars, shootDir, outSock, backlog, srvClients, c2s, s2c,
                        dead, status >>

(***************************************************************************)
(* ControlPanel._run_action on a cannon message with sx and sy             *)
(***************************************************************************)
(* A received line m has a form: "text" (json.loads fails on it), "value"  *)
(* (JSON, but no object: a list, a number, null) or "object"; unfloat are  *)
(* those of sx, sy, vx, vy and g that float() does not convert.            *)
(* Lines 2523-2588: "invalid" is logged and returned from, "raise" is an   *)
(* exception that leaves _run_action (action_json.get of line 2530 on a    *)
(* value that is no object, int() of line 2184).  target says which keys   *)
(* of a target the object has: "arc" (sx and sy), "normalised" (nx and ny  *)
(* in x and y) or "pixel" (x and y, 0 when absent); extra are the names of *)
(* its fields that _run_action never asks for.                             *)
(* a mutant: a line with a field the handler does not know is invalid *)
HandledStrictly(m) ==
    IF m.form # "object" \/ m.unfloat # {} \/ m.extra # {} THEN NoArrival("invalid")
    ELSE CannonArrival(m)
Handled(m) ==
    IF m.form = "text" THEN NoArrival("invalid")
    ELSE IF m.form = "value" THEN NoArrival("raise")
    ELSE IF m.unfloat # {} THEN NoArrival("invalid")
    ELSE CannonArrival(m)

ArrivalState(a) ==
    IF a.res = "error" THEN "rejected"
    ELSE IF a.res = "discard" THEN "discarded"
    ELSE IF a.res = "invalid" THEN "invalid"
    ELSE IF a.res = "raise" THEN "raised" ELSE "scheduled"

(* a show_explosion(QPoint(x, y)) or shoot_cannon_to(QPoint(x, y)) call *)
Effect(p, kind, x, y) == [proc |-> p, kind |-> kind, x |-> x, y |-> y]
(* the target of a cannon line without sx and sy, lines 2591-2600 *)
LegacyTarget(m) ==
    IF m.target = "normalised" THEN << PixX(m.x), PixY(m.y) >> ELSE << m.x, m.y >>

_run_action(p, m) ==
    IF m.form = "object" /\ m.action = "fire"
    THEN /\ effects' = Append(effects, Effect(p, "explosion", m.x, m.y))
         /\ UNCHANGED shotVars
    ELSE IF m.form = "object" /\ m.action = "cannon" /\ m.target # "arc"
    THEN /\ effects' = Append(effects, Effect(p, "cannonball", LegacyTarget(m)[1],
                                               LegacyTarget(m)[2]))
         /\ UNCHANGED shotVars
    ELSE /\ shots' = Append(shots, NewShot(p, "remote", m, Handled(m),
                                           ArrivalState(Handled(m))))
         /\ UNCHANGED << active, deferred, effects >>

(* MessageServer._on_ready_read of q's socket for dialer d: one line *)
ServerRead(q, d) ==
    /\ InSeq(d, srvClients[q])
    /\ c2s[<< d, q >>] # << >>
    /\ _run_action(q, Head(c2s[<< d, q >>]))
    /\ c2s' = [c2s EXCEPT ![<< d, q >>] = Tail(@)]
    /\ UNCHANGED << calls, listening, closed, solved, dials, dirVars, rxVars, shootDir, outSock, backlog, srvClients, s2c, dead, status >>

(* MessageClient._on_ready_read of p's socket to q: one line *)
ClientRead(p, q) ==
    /\ outSock[p][q] = "connected"
    /\ s2c[<< p, q >>] # << >>
    /\ _run_action(p, Head(s2c[<< p, q >>]))
    /\ s2c' = [s2c EXCEPT ![<< p, q >>] = Tail(@)]
    /\ UNCHANGED << calls, listening, closed, solved, dials, dirVars, rxVars, shootDir, outSock, backlog, srvClients, c2s, dead, status >>

(* a mutant: a line that starts no projectile closes its connection *)
LineArrivesAndCloses(p, c, m, bound) ==
    /\ Len(shots) + Len(effects) < bound
    /\ IF c[2] = p THEN InSeq(c[1], srvClients[p])
                   ELSE c[1] = p /\ outSock[p][c[2]] = "connected"
    /\ _run_action(p, m)
    /\ IF Handled(m).res = "spawn"
       THEN UNCHANGED << outSock, srvClients >>
       ELSE /\ outSock' = [outSock EXCEPT ![p] = [q \in Nodes |-> "unconnected"]]
            /\ srvClients' = [srvClients EXCEPT ![p] = << >>]
    /\ UNCHANGED << calls, listening, closed, solved, shootDir, backlog, c2s, s2c, dead, status, dials, rxVars, dirVars >>

(* a mutant: the line is handled and passed on to every peer *)
LineArrivesAndRelays(p, c, m, bound) ==
    /\ Len(shots) + Len(effects) < bound
    /\ IF c[2] = p THEN InSeq(c[1], srvClients[p])
                   ELSE c[1] = p /\ outSock[p][c[2]] = "connected"
    /\ _run_action(p, m)
    /\ Broadcast(p, m)
    /\ UNCHANGED << calls, listening, closed, shootDir, outSock, backlog, srvClients, dead, dials, rxVars, dirVars,
                    solved >>

(* a line m written by the peer at the other end of connection c arrives  *)
(* at process p and is read at once: _on_ready_read of the socket, which   *)
(* is still in the active set, and _run_action                             *)
LineArrives(p, c, m, bound) ==
    /\ Len(shots) + Len(effects) < bound
    /\ IF c[2] = p THEN InSeq(c[1], srvClients[p])
                   ELSE c[1] = p /\ outSock[p][c[2]] = "connected"
    /\ _run_action(p, m)
    /\ UNCHANGED << shootDir, netVars >>

(* a line of a peer outside the model is read by process p *)
EnvReceive(p, m, bound) ==
    /\ Len(shots) + Len(effects) < bound
    /\ _run_action(p, m)
    /\ UNCHANGED << shootDir, netVars >>

(***************************************************************************)
(* on_cat_clicked                                                          *)
(***************************************************************************)
on_cat_clicked(p, inp, bound) ==
    LET id  == Len(shots) + 1
        m   == CannonMsg(shootDir[p], inp, id)
        loc == LocalExit(shootDir[p], m, inp.mult)
    IN  /\ Len(shots) < bound
        /\ IF loc.res = "spawn"
           THEN AddProjectile(p, id, Append(shots, NewShot(p, "local", m, loc, "live")))
           ELSE /\ shots' = Append(shots, NewShot(p, "local", m, loc, "rejected"))
                /\ UNCHANGED << active, deferred >>
        /\ Broadcast(p, OnWire(m))
        /\ UNCHANGED << calls, listening, closed, effects, solved, dials, dirVars, rxVars, shootDir, outSock, backlog, srvClients, dead >>

(* a call of _solve_landing_time on its own *)
SolveLanding(y0, vy, g, y_land) ==
    /\ solved' = Some([y0 |-> y0, vy |-> vy, g |-> g, y_land |-> y_land,
                        t |-> _solve_landing_time(y0, vy, g, y_land)])
    /\ UNCHANGED << calls, listening, closed, effects, shotVars, shootDir, outSock, backlog, srvClients, c2s, s2c, dead, status,
                    dials, rxVars, dirVars >>

(* ControlPanel: the direction toggle, lines 2624-2629 *)
_on_direction_changed(p, d) ==
    /\ shootDir' = [shootDir EXCEPT ![p] = d]
    /\ UNCHANGED << shotVars, netVars, effects >>

(***************************************************************************)
(* Inputs                                                                  *)
(***************************************************************************)
Directions == { "left_to_right", "right_to_left" }

LaunchInput(sx, sy, g, peak_h, speed, u, mult) ==
    [sx |-> sx, sy |-> sy, g |-> g, peak_h |-> peak_h, speed |-> speed,
     u |-> u, mult |-> mult]

(* launches: a cat in mid-screen and one at the bottom right, the slowest  *)
(* and the fastest horizontal speed                                        *)
LaunchInputs ==
    { LaunchInput(5000, 5000, 20000, 5000, 10000, u, 10) : u \in { 0, UDen } }
    \cup { LaunchInput(9000, 9000, 32000, 3800, 11500, 0, 14) }

Msg(sx, sy, vx, vy, g, dir, delay_ms, land_ny) ==
    [form |-> "object", unfloat |-> {}, extra |-> {}, target |-> "arc", x |-> 0, y |-> 0,
     action |-> "cannon", sx |-> sx, sy |-> sy, vx |-> vx, vy |-> vy, g |-> g,
     delay_ms |-> delay_ms, direction |-> dir, land_ny |-> land_ny, launch |-> 0]

(* lines of peers outside the model *)
EnvMessages ==
    { Msg(5000, 5000, 10000, -10000, 20000, "left_to_right", Some(550), Some(6000)),
      Msg(5000, 5000, 10000, 0, 2000, "left_to_right", Some(100), Some(9000)),
      Msg(5000, 9000, 8000, -10000, 20000, "left_to_right", Some(0), Some(7113)),
      Msg(5000, 9000, 11500, -10000, 20000, "left_to_right", Some(0), Some(5000)),
      Msg(5000, 9000, 11500, -10000, 20000, "left_to_right", Some(0), Some(6505)),
      Msg(5000, 9000, -8000, -10000, 20000, "right_to_left", Some(0), Some(5000)),
      Msg(5000, 5000, 0, -10000, 20000, "left_to_right", Some(0), Some(6000)),
      Msg(5000, 5000, 10000, -10000, 20000, "right_to_left", Some(0), Some(6000)),
      Msg(5000, 5000, -10000, -10000, 20000, "right_to_left", None, Some(6000)) }

(***************************************************************************)
(* Specifications                                                          *)
(***************************************************************************)
(* One process, its launches and the lines of peers outside the model.    *)
Next ==
    \/ \E inp \in LaunchInputs : on_cat_clicked(1, inp, MaxShots)
    \/ \E m \in EnvMessages : EnvReceive(1, m, MaxShots)
    \/ \E d \in Directions : _on_direction_changed(1, d)
    \/ \E id \in ShotIds : _spawn(id)
    \/ \E id \in ShotIds : \E hit \in Hits(id) : _tick(id, hit)
    \/ DeferredDelete(1)
    \/ AdvanceTime(TimeStep)

Spec == Init /\ [][Next]_vars

(* Two processes that find each other over zeroconf, dial each other and   *)
(* launch.                                                                 *)
NetLaunchInputs == { LaunchInput(5000, 5000, 20000, 5000, 10000, 0, 10) }

NextNet ==
    \/ \E p \in Procs, q \in Procs : PeerFound(p, q)
    \/ \E p \in Procs, q \in Procs : TcpEstablished(p, q)
    \/ \E q \in Procs : _on_new_connection(q)
    \/ \E p \in Procs, inp \in NetLaunchInputs : on_cat_clicked(p, inp, MaxLaunches)
    \/ \E q \in Procs, d \in Procs : ServerRead(q, d)
    \/ \E p \in Procs, q \in Procs : ClientRead(p, q)
    \/ \E id \in ShotIds : _spawn(id)
    \/ \E id \in ShotIds : \E hit \in Hits(id) : _tick(id, hit)
    \/ \E p \in Procs : DeferredDelete(p)
    \/ AdvanceTime(TimeStep)

SpecNet == Init /\ [][NextNet]_vars

(* Process 1 and its peers: every peer may dial process 1 and be dialled   *)
(* by it, dials fail, connections break, and process 1 launches.           *)
MeshLinks == { c \in Conns : c[1] # c[2] /\ (c[1] = 1 \/ c[2] = 1) }
MeshLaunchInputs == { LaunchInput(5000, 5000, 20000, 5000, 10000, 0, 10) }

NextMesh ==
    \/ \E c \in MeshLinks : PeerFound(c[1], c[2])
    \/ \E c \in MeshLinks : TcpEstablished(c[1], c[2])
    \/ \E c \in MeshLinks : DialFails(c[1], c[2])
    \/ \E q \in Nodes : _on_new_connection(q)
    \/ \E c \in MeshLinks : ConnBreak(c[1], c[2])
    \/ \E c \in MeshLinks : ClientDisconnected(c[1], c[2])
    \/ \E c \in MeshLinks : _on_disconnected(c[2], c[1])
    \/ \E inp \in MeshLaunchInputs : on_cat_clicked(1, inp, MaxMeshShots)

SpecMesh == Init /\ [][NextMesh]_vars

(* Process 1, connected to a peer, launches once, in either direction,     *)
(* from the corners, the edges and the middle of the frame, with the       *)
(* least and the greatest g, peak height and speed of lines 2834-2886 and  *)
(* every draw of land_ny and of the projectile type (speed multiplier 1.0, *)
(* 1.4 or 1.8, projectiles.py lines 65-68); the peer reads the line.       *)
SpeedMultipliers == { 10, 14, 18 }
LaunchGrid ==
    { LaunchInput(sx, sy, g, peak_h, speed, u, mult) :
        sx \in { 0, 5000, 10000 }, sy \in { 0, 5000, 10000 },
        g \in { 19000, 32000 }, peak_h \in { 3800, 6200 },
        speed \in { 6500, 11500 }, u \in 0..UDen, mult \in SpeedMultipliers }

NextLaunch ==
    \/ PeerFound(1, 2)
    \/ TcpEstablished(1, 2)
    \/ \E d \in Directions : _on_direction_changed(1, d)
    \/ \E inp \in LaunchGrid : on_cat_clicked(1, inp, MaxGridShots)
    \/ _on_new_connection(2)
    \/ ServerRead(2, 1)

SpecLaunch == Init /\ [][NextLaunch]_vars

(* Process 1 receives the line sx = sy = 0.5, vx = 1.0, vy = -1.0, g = 2.0, *)
(* left_to_right, land_ny = 0.6 without a delay_ms, with a negative and    *)
(* with a positive one, while its timers run.                              *)
Scenario == Msg(5000, 5000, 10000, -10000, 20000, "left_to_right", None, Some(6000))
ArriveMessages ==
    { Scenario, [Scenario EXCEPT !.delay_ms = Some(-200)],
      [Scenario EXCEPT !.delay_ms = Some(300)] }

NextArrive ==
    \/ \E m \in ArriveMessages : EnvReceive(1, m, MaxArriveShots)
    \/ \E id \in ShotIds : _spawn(id)
    \/ \E id \in ShotIds : \E hit \in Hits(id) : _tick(id, hit)
    \/ DeferredDelete(1)
    \/ AdvanceTime(TimeStep)

SpecArrive == Init /\ [][NextArrive]_vars

(* Process 1 with a peer that dials it and a peer it dials receives fire   *)
(* lines, cannon lines of the arc and of the older target kinds, with and  *)
(* without fields it does not know, and a line that is no JSON; it         *)
(* launches, too.                                                          *)
Fire(x, y, extra) ==
    [Msg(0, 0, 0, 0, 0, "left_to_right", None, None)
        EXCEPT !.action = "fire", !.target = "pixel", !.x = x, !.y = y, !.extra = extra]
KnownLines ==
    { Fire(120, 340, {}), Scenario,
      [Scenario EXCEPT !.target = "normalised", !.x = 2500, !.y = 7500],
      [Scenario EXCEPT !.target = "pixel", !.x = 120, !.y = 340],
      [Scenario EXCEPT !.form = "text"] }
HandleLines == KnownLines \cup { [m EXCEPT !.extra = { "note" }] : m \in KnownLines }

HandleLinks == { << 2, 1 >>, << 1, 3 >> }

NextHandle ==
    \/ \E c \in HandleLinks : PeerFound(c[1], c[2])
    \/ \E c \in HandleLinks : TcpEstablished(c[1], c[2])
    \/ _on_new_connection(1)
    \/ \E c \in HandleLinks, m \in HandleLines : LineArrives(1, c, m, MaxHandleLines)
    \/ \E inp \in NetLaunchInputs : on_cat_clicked(1, inp, MaxHandleLines)

SpecHandle == Init /\ [][NextHandle]_vars

(* The server of process 1 is stopped and started while two peers dial it, *)
(* connections break and process 1 launches.                               *)
ServerLinks == { << 2, 1 >>, << 3, 1 >> }

NextServer ==
    \/ \E c \in ServerLinks : PeerFound(c[1], c[2])
    \/ \E c \in ServerLinks : TcpEstablished(c[1], c[2])
    \/ \E c \in ServerLinks : DialFails(c[1], c[2])
    \/ _on_new_connection(1)
    \/ \E c \in ServerLinks : ConnBreak(c[1], c[2])
    \/ \E c \in ServerLinks : ClientDisconnected(c[1], c[2])
    \/ \E c \in ServerLinks : _on_disconnected(c[2], c[1])
    \/ \E ok \in BOOLEAN : start(1, ok, MaxServerCalls)
    \/ stop(1, MaxServerCalls)
    \/ \E inp \in NetLaunchInputs : on_cat_clicked(1, inp, MaxServerShots)

SpecServer == Init /\ [][NextServer]_vars

(* The landing solver on its own: starts above, at and below the target,   *)
(* rising, resting and falling, with g negative, zero and positive.        *)
SolverInputs ==
    { << y0, vy, g, y_land >> :
        y0 \in { 0, 2525, 5000, 10000 }, vy \in { -15000, -10000, 0, 1000, 15000 },
        g \in { -20000, 0, 20000, 32000 }, y_land \in { 500, 6000, 9500 } }

NextSolve == \E in \in SolverInputs : SolveLanding(in[1], in[2], in[3], in[4])

SpecSolve == Init /\ [][NextSolve]_vars

(* Process 1 browses: the records of the other hosts, of their restarts    *)
(* and its own are announced, resolved and dialled; dials fail and         *)
(* connections break.                                                      *)
NextDir ==
    \/ \E r \in RecordsSeenBy(1) : _on_service_state_change(1, r, MaxAdded)
    \/ \E r \in ServiceRecords, ok \in BOOLEAN : _resolve(1, r, ok)
    \/ on_peer(1)
    \/ \E q \in Nodes : TcpEstablished(1, q)
    \/ \E q \in Nodes : DialFails(1, q)
    \/ \E q \in Nodes : ConnBreak(1, q)
    \/ \E q \in Nodes : ClientDisconnected(1, q)

SpecDir == Init /\ [][NextDir]_vars

(* The same, and process 1 closes its directory at any moment. *)
NextClose == NextDir \/ close(1)

SpecClose == Init /\ [][NextClose]_vars

(* Process 1 with a peer that dials it and a peer it dials: the peers      *)
(* write lines, well-formed or not, dials fail and connections break while *)
(* the shots of process 1 run.                                             *)
FaultLinks == { << 2, 1 >>, << 1, 3 >> }
WellFormed == Msg(5000, 5000, 10000, -10000, 20000, "left_to_right", Some(550), Some(6000))
FaultLines ==
    { WellFormed,
      [WellFormed EXCEPT !.form = "text"],
      [WellFormed EXCEPT !.form = "value"],
      [WellFormed EXCEPT !.unfloat = { "vx" }],
      [WellFormed EXCEPT !.delay_ms = Unconvertible],
      [WellFormed EXCEPT !.land_ny = Unconvertible],
      Msg(5000, 5000, 0, -10000, 20000, "left_to_right", Some(0), Some(6000)),
      Msg(5000, 9000, 8000, -10000, 20000, "left_to_right", Some(0), Some(7113)) }

NextFault ==
    \/ \E c \in FaultLinks : PeerFound(c[1], c[2])
    \/ \E c \in FaultLinks : TcpEstablished(c[1], c[2])
    \/ \E c \in FaultLinks : DialFails(c[1], c[2])
    \/ _on_new_connection(1)
    \/ \E c \in FaultLinks : ConnBreak(c[1], c[2])
    \/ ClientDisconnected(1, 3)
    \/ _on_disconnected(1, 2)
    \/ \E c \in FaultLinks, m \in FaultLines : LineArrives(1, c, m, MaxFaultLines)
    \/ \E id \in ShotIds : _spawn(id)
    \/ \E id \in ShotIds : \E hit \in Hits(id) : _tick(id, hit)
    \/ DeferredDelete(1)
    \/ AdvanceTime(CapStep)

SpecFault == Init /\ [][NextFault]_vars

(* Process 1 reads from two accepted sockets and from one dialling socket: *)
(* any bytes, in any chunks.                                               *)
FrameSocks == { << "server", << 2, 1 >> >>, << "server", << 3, 1 >> >>,
                << "client", << 1, 2 >> >> }
Chunks == UNION { [1..n -> Bytes] : n \in 1..MaxChunk }

NextFrame ==
    \/ \E k \in FrameSocks, chunk \in Chunks : MessageServer_on_ready_read(k, chunk)
    \/ \E k \in FrameSocks, chunk \in Chunks : MessageClient_on_ready_read(k, chunk)

SpecFrame == Init /\ [][NextFrame]_vars

(* One process under a burst of launches that fills _active_projectiles,   *)
(* with the timers and the event loop running: what is enabled happens.    *)
(* The lines of outside peers come among the first MaxCapEarly shots.      *)
CapLaunchInputs == { LaunchInput(5000, 5000, 20000, 5000, 10000, 0, 10) }
CapMessages ==
    { Msg(5000, 5000, 10000, -10000, 20000, "left_to_right", Some(550), Some(6000)),
      Msg(5000, 9000, 8000, -10000, 20000, "left_to_right", Some(0), Some(7113)) }

NextCap ==
    \/ \E inp \in CapLaunchInputs : on_cat_clicked(1, inp, MaxCapShots)
    \/ \E m \in CapMessages : EnvReceive(1, m, MaxCapEarly)
    \/ \E id \in ShotIds : _spawn(id)
    \/ \E id \in ShotIds : \E hit \in Hits(id) : _tick(id, hit)
    \/ DeferredDelete(1)
    \/ AdvanceTime(CapStep)

SpecCap ==
    /\ Init /\ [][NextCap]_vars
    /\ WF_vars(\E id \in ShotIds : _spawn(id))
    /\ WF_vars(\E id \in ShotIds : \E hit \in Hits(id) : _tick(id, hit))
    /\ WF_vars(DeferredDelete(1))
    /\ WF_vars(AdvanceTime(CapStep))

(***************************************************************************)
(* Shot states of the design: Scheduled -> Animating -> ExitedSilently,    *)
(* Landed or Discarded.  "Rejected" is a call that returned an error and   *)
(* "Dropped" an overlay deleted with finished never emitted.               *)
(***************************************************************************)
ShotState(s) ==
    IF s.st = "rejected" THEN "Rejected"
    ELSE IF s.st = "discarded" THEN "Discarded"
    ELSE IF s.st = "scheduled" THEN "Scheduled"
    ELSE IF s.fin > 0 THEN (IF s.imp > 0 THEN "Landed" ELSE "ExitedSilently")
    ELSE IF s.st = "live" THEN "Animating" ELSE "Dropped"

Terminal(s) == ShotState(s) \in { "ExitedSilently", "Landed", "Discarded" }

Rank(state) ==
    IF state = "Scheduled" THEN 1 ELSE IF state = "Animating" THEN 2 ELSE 3

IsRemote(i) == shots[i].kind = "remote"
IsLocal(i) == shots[i].kind = "local"

(* the pixel at which a completing overlay emits finished: that of t_end,  *)
(* or of now when a kill ends it early                                     *)
FinalInFrame(s) ==
    LET t == Min(s.age, s.t_end)
    IN  GeoContains(PixX(PosX(s.x0, s.vx, t)), PixY(PosY(s.y0, s.vy, s.g, t)))

(***************************************************************************)
(* C2: a local launch never triggers an impact on the launching host: no   *)
(* overlay of the launching process that stems from the launch, the local  *)
(* one included, ever calls show_explosion.                                *)
(***************************************************************************)
LocalLaunchNoImpact ==
    \A i \in ShotIds : \A j \in ShotIds :
        (IsLocal(i) /\ shots[j].launch = i /\ shots[j].proc = shots[i].proc)
            => shots[j].imp = 0

(* a local projectile has run to its end and is gone *)
LocalLaunchCompleted ==
    \E i \in ShotIds : IsLocal(i) /\ shots[i].fin = 1 /\ shots[i].st = "deleted"

(***************************************************************************)
(* C3: a remote projectile triggers an impact when it completes if and     *)
(* only if its terminal time is the landing time and its final position    *)
(* is inside the visible frame; otherwise it completes with no impact, and *)
(* there is no impact without a completion.                                *)
(***************************************************************************)
RemoteImpactRule ==
    [][\A i \in ShotIds :
          IsRemote(i) =>
              IF shots'[i].fin > shots[i].fin
              THEN (shots'[i].imp > shots[i].imp)
                       <=> (shots[i].t_end = shots[i].t_land /\ FinalInFrame(shots[i]))
              ELSE shots'[i].imp = shots[i].imp]_vars

(* one remote projectile has landed with an impact, another has completed  *)
(* without one                                                             *)
RemoteLandedAndSilent ==
    \E i \in ShotIds : \E j \in ShotIds :
        /\ IsRemote(i) /\ shots[i].fin = 1 /\ shots[i].imp = 1
        /\ IsRemote(j) /\ shots[j].fin = 1 /\ shots[j].imp = 0

UnreachableNeverScheduled ==
    \A i \in ShotIds :
        (IsRemote(i) /\ shots[i].st # "rejected" /\ ~shots[i].real)
            => shots[i].st = "discarded" /\ shots[i].fin = 0 /\ shots[i].imp = 0

(***************************************************************************)
(* C6: a message whose vx does not have the sign of its direction (zero    *)
(* included) is rejected: no projectile is scheduled, no impact is issued, *)
(* and the rejection leaves the rest of the state as it was, so that later *)
(* messages are handled as if it had never come.                           *)
(***************************************************************************)
WrongSign(s) ==
    IF s.dir = "right_to_left" THEN s.mvx >= 0 ELSE s.mvx <= 0

WrongSignRejected ==
    /\ [](\A i \in ShotIds :
            (IsRemote(i) /\ WrongSign(shots[i]))
                => /\ shots[i].st = "rejected"
                   /\ ~shots[i].timer
                   /\ shots[i].fin = 0 /\ shots[i].imp = 0
                   /\ ~InSeq(i, active[shots[i].proc]))
    /\ [][(Len(shots') = Len(shots) + 1 /\ shots'[Len(shots')].st = "rejected")
             => /\ SubSeq(shots', 1, Len(shots)) = shots
                /\ UNCHANGED << active, deferred, shootDir >>]_vars

(* a message with vx = 0 was rejected, and a message that came after it   *)
(* has been animated to its end                                            *)
HandledAfterRejection ==
    \E i \in ShotIds : \E j \in ShotIds :
        /\ i < j
        /\ IsRemote(i) /\ shots[i].st = "rejected" /\ shots[i].mvx = 0
        /\ IsRemote(j) /\ shots[j].fin = 1

(***************************************************************************)
(* C9: the transitions of a shot are one-way: it never goes back to an     *)
(* earlier state, and once it is in a terminal state it stays there and    *)
(* neither renders (ticks) nor triggers an impact again.                   *)
(***************************************************************************)
OneWayTransitions ==
    [][\A i \in ShotIds :
          /\ Rank(ShotState(shots'[i])) >= Rank(ShotState(shots[i]))
          /\ Terminal(shots[i])
                => /\ ShotState(shots'[i]) = ShotState(shots[i])
                   /\ shots'[i].fin = shots[i].fin
                   /\ shots'[i].imp = shots[i].imp
                   /\ ~shots'[i].late]_vars

(* a remote shot went from Scheduled through Animating to Landed and its   *)
(* overlay is deleted, and another shot was discarded                      *)
LandedAndGone ==
    /\ \E i \in ShotIds :
        IsRemote(i) /\ ShotState(shots[i]) = "Landed" /\ shots[i].st = "deleted"
    /\ \E j \in ShotIds : ShotState(shots[j]) = "Discarded"

(***************************************************************************)
(* C1: for every local launch and every peer, the peer's handler processes *)
(* the launch's message at most once: at most one remote projectile (and   *)
(* impact) per launch and peer, whatever the connections, those of two     *)
(* processes that have dialed each other included.                         *)
(***************************************************************************)
HandledBy(launch, q) ==
    { j \in ShotIds : IsRemote(j) /\ shots[j].launch = launch /\ shots[j].proc = q }

HandledAtMostOnce ==
    \A i \in ShotIds : \A q \in Procs :
        IsLocal(i) => Cardinality(HandledBy(i, q)) <= 1

(***************************************************************************)
(* C7 as stated: every started animator emits finished exactly once in its *)
(* lifetime and never ticks after it: an overlay that is deleted has       *)
(* emitted it once.                                                        *)
(***************************************************************************)
FinishedExactlyOnce ==
    \A i \in ShotIds :
        /\ shots[i].fin <= 1 /\ ~shots[i].late
        /\ shots[i].st = "deleted" => shots[i].fin = 1

(***************************************************************************)
(* C7, amended: every started animator emits finished at most once and     *)
(* never ticks after it, and an overlay that is deleted has emitted it     *)
(* exactly once unless _drop_oldest evicted it at the cap.                 *)
(***************************************************************************)
FinishedOnceUnlessEvicted ==
    \A i \in ShotIds :
        /\ shots[i].fin <= 1 /\ ~shots[i].late
        /\ (shots[i].st = "deleted" /\ ~shots[i].evicted) => shots[i].fin = 1

(* an evicted overlay is gone without finished, and a remote overlay that  *)
(* was not evicted is gone after emitting it once                          *)
EvictedWithoutFinished ==
    /\ \E i \in ShotIds :
        shots[i].evicted /\ shots[i].st = "deleted" /\ shots[i].fin = 0
    /\ \E j \in ShotIds :
        IsRemote(j) /\ ~shots[j].evicted /\ shots[j].st = "deleted" /\ shots[j].fin = 1

(***************************************************************************)
(* C8 as stated: no scheduled shot leaves the system without having        *)
(* reached one of the terminal states.                                     *)
(***************************************************************************)
NoShotVanishes ==
    \A i \in ShotIds : ShotState(shots[i]) # "Dropped"

(***************************************************************************)
(* C8, amended: with the timers firing, every scheduled shot that          *)
(* _drop_oldest does not evict reaches exactly one of ExitedSilently,      *)
(* Landed and Discarded and stays there: in the end no shot is Scheduled   *)
(* or Animating, and only evicted shots are gone without a terminal state. *)
(***************************************************************************)
Pending(s) == ShotState(s) \in { "Scheduled", "Animating" }

ShotsSettleUnlessEvicted ==
    /\ [](\A i \in ShotIds : ShotState(shots[i]) = "Dropped" => shots[i].evicted)
    /\ <>[](\A i \in ShotIds : ~Pending(shots[i]))

(* a local shot has exited, a remote one has landed and the shot evicted   *)
(* before them is gone without a terminal state                            *)
SettledAfterEviction ==
    \E i \in ShotIds : \E j \in ShotIds : \E k \in ShotIds :
        /\ ShotState(shots[i]) = "Dropped" /\ shots[i].evicted
        /\ IsLocal(j) /\ ShotState(shots[j]) = "ExitedSilently"
        /\ IsRemote(k) /\ ShotState(shots[k]) = "Landed"

(***************************************************************************)
(* C10: _active_projectiles never holds more than 16 overlays; an overlay  *)
(* added at the cap evicts exactly the oldest, the others keep their       *)
(* order, and nothing else about any other shot changes in that step;      *)
(* below the cap nothing is evicted, and only an addition evicts.          *)
(***************************************************************************)
NewlyEvicted(i) == ~shots[i].evicted /\ shots'[i].evicted

Added(p) ==
    /\ active'[p] # << >>
    /\ ~InSeq(active'[p][Len(active'[p])], active[p])

CapEvictsOldestOnly ==
    /\ [](\A p \in Procs : Len(active[p]) <= MAX_ACTIVE_PROJECTILES)
    /\ [][\A p \in Procs :
            LET new == active'[p][Len(active'[p])]
            IN  IF Added(p)
                THEN IF Len(active[p]) = MAX_ACTIVE_PROJECTILES
                     THEN /\ active'[p] = Append(Tail(active[p]), new)
                          /\ \A i \in ShotIds :
                               shots[i].proc = p =>
                                   (NewlyEvicted(i) <=> i = Head(active[p]))
                          /\ \A i \in ShotIds :
                               i # new =>
                                   shots'[i] = [shots[i] EXCEPT
                                                  !.evicted = @ \/ i = Head(active[p])]
                     ELSE /\ active'[p] = Append(active[p], new)
                          /\ \A i \in ShotIds : shots[i].proc = p => ~NewlyEvicted(i)
                ELSE \A i \in ShotIds : shots[i].proc = p => ~NewlyEvicted(i)]_vars

(* the oldest overlay was evicted at the cap and a later one, which was    *)
(* not, has run to its end                                                 *)
EvictedAndLaterCompleted ==
    \E i \in ShotIds : \E j \in ShotIds :
        /\ i < j
        /\ shots[i].evicted
        /\ ~shots[j].evicted /\ shots[j].fin = 1
(***************************************************************************)
(* The message channel                                                     *)
(***************************************************************************)
(* the step is a launch of process p *)
LaunchStep(p) ==
    /\ Len(shots') = Len(shots) + 1
    /\ shots'[Len(shots')].kind = "local"
    /\ shots'[Len(shots')].proc = p
(* the connections of p whose socket is in ConnectedState, and those of    *)
(* them that have not broken                                               *)
SocketsOut(p) == { c \in Conns : c[1] = p /\ outSock[p][c[2]] = "connected" }
SocketsIn(p) == { c \in Conns : c[2] = p /\ InSeq(c[1], srvClients[p]) }
OpenOut(p) == SocketsOut(p) \ dead
OpenIn(p) == SocketsIn(p) \ dead
(* queue q2 is queue q followed by the message of launch id *)
Got(q, q2, id) ==
    /\ Len(q2) = Len(q) + 1
    /\ SubSeq(q2, 1, Len(q)) = q
    /\ q2[Len(q2)].launch = id /\ q2[Len(q2)].action = "cannon"
OneNewline(line) ==
    /\ line # << >> /\ line[Len(line)] = NL
    /\ Len(line) >= 2 => line[Len(line) - 1] # NL

(* C11: a launch writes its message, ended by exactly one line feed, to    *)
(* every outbound and every inbound connection that is connected and       *)
(* working at that moment and to no other; a connection that is not        *)
(* connected or has broken gets nothing and stops no other write, and the  *)
(* launch completes with its local shot.                                   *)
BroadcastReachesOpenConnections ==
    [][\A p \in Nodes : LaunchStep(p) =>
          /\ \A c \in Conns :
                /\ IF c \in OpenOut(p) THEN Got(c2s[c], c2s'[c], Len(shots'))
                                       ELSE c2s'[c] = c2s[c]
                /\ IF c \in OpenIn(p) THEN Got(s2c[c], s2c'[c], Len(shots'))
                                      ELSE s2c'[c] = s2c[c]
          /\ \A text \in Texts : OneNewline(Encode(text))
          /\ shots'[Len(shots')].st = "live"]_vars

(* process 1 has launched: two of its connections, one outbound and one    *)
(* inbound, hold the message, a third one had broken and holds nothing,    *)
(* and a fourth one was not connected                                      *)
TwoReceivedOneBroken ==
    /\ Len(shots) = 1 /\ shots[1].kind = "local" /\ shots[1].proc = 1
    /\ \E a \in OpenOut(1), b \in OpenIn(1) :
          /\ Len(c2s[a]) = 1 /\ Len(s2c[b]) = 1
          /\ \E c \in (SocketsOut(1) \cup SocketsIn(1)) \cap dead :
                c2s[c] = << >> /\ s2c[c] = << >>
    /\ Status("client", "Client not connected", 3) \in status[1]

(* the positions of the line feeds of a stream, the n-th of them, the      *)
(* complete lines of the stream and what follows its last line feed        *)
NLPos(stream) == { i \in 1..Len(stream) : stream[i] = NL }
NthNL(stream, n) ==
    IF n = 0 THEN 0
    ELSE CHOOSE i \in NLPos(stream) : Cardinality({ j \in NLPos(stream) : j <= i }) = n
CompleteLines(stream) ==
    [n \in 1..Cardinality(NLPos(stream)) |->
        Decode(SubSeq(stream, NthNL(stream, n - 1) + 1, NthNL(stream, n) - 1))]
Trailing(stream) ==
    SubSeq(stream, NthNL(stream, Cardinality(NLPos(stream))) + 1, Len(stream))
(* the messages emitted for socket k, in order *)
From(k) ==
    LET sel == SelectSeq(emitted, LAMBDA e : e.sock = k)
    IN  [i \in 1..Len(sel) |-> sel[i].text]

(* C12, as claimed: on every socket, whatever the chunks, every complete   *)
(* line of the bytes received is one message, in stream order, and the     *)
(* bytes after the last line feed are that socket's buffer.                *)
EveryLineOneMessage ==
    \A k \in Socks :
        /\ From(k) = CompleteLines(arrived[k])
        /\ rx_buf[k] = Trailing(arrived[k])

(* C12, amended: the same for the non-empty lines of an accepted socket,   *)
(* whose empty lines are emitted as no message, and for all the lines of a *)
(* dialling socket.                                                        *)
EveryNonEmptyLineOneMessage ==
    \A k \in Socks :
        /\ From(k) = IF k[1] = "server"
                     THEN SelectSeq(CompleteLines(arrived[k]), LAMBDA l : l # << >>)
                     ELSE CompleteLines(arrived[k])
        /\ rx_buf[k] = Trailing(arrived[k])

(* an accepted socket emitted a line that took two reads to arrive, the    *)
(* other one got an empty line and keeps a partial line, and the dialling  *)
(* socket emitted an empty line                                            *)
PartialLinesKeptApart ==
    \E k \in FrameSocks, k2 \in FrameSocks, k3 \in FrameSocks :
        /\ k[1] = "server" /\ k2[1] = "server" /\ k # k2 /\ k3[1] = "client"
        /\ arrived[k] = << Brace, Bad, NL >>
        /\ From(k) = << << Brace, Replacement >> >>
        /\ arrived[k2] = << NL, Brace >> /\ From(k2) = << >> /\ rx_buf[k2] = << Brace >>
        /\ arrived[k3] = << NL >> /\ From(k3) = << << >> >>

(***************************************************************************)
(* Faults                                                                  *)
(***************************************************************************)
(* the step is the handling of a received line by process p *)
LineStep(p) ==
    /\ Len(shots') = Len(shots) + 1
    /\ shots'[Len(shots')].kind = "remote"
    /\ shots'[Len(shots')].proc = p

(* C13, as claimed: a malformed line (no JSON object, or a cannon payload  *)
(* with a number that does not convert) is logged as invalid and dropped:  *)
(* no exception leaves the handler, nothing is scheduled from it, and the  *)
(* connections stay as they are.                                           *)
MalformedLineLoggedAndDropped ==
    [][\A p \in Nodes : LineStep(p) /\ shots'[Len(shots')].malformed =>
          /\ shots'[Len(shots')].st = "invalid"
          /\ UNCHANGED << active, deferred, netVars >>]_vars

(***************************************************************************)
(* The peer directory and the outbound connections                         *)
(***************************************************************************)
(* the peer_found emissions of process p for the records of one host *)
EmissionsFor(p, host) ==
    SumOver(found[p], { r \in ServiceRecords : r.host = host })

(* C14, as claimed: peer_found is emitted at most once per host and port,  *)
(* however many Added records resolve to it.                               *)
PeerFoundOncePerHost ==
    \A p \in Nodes, host \in Nodes : EmissionsFor(p, host) <= 1

(* C14, amended: peer_found is emitted at most once per Added event whose  *)
(* resolution has ended, and only for records of another instance.         *)
PeerFoundOncePerAddedRecord ==
    \A p \in Nodes, r \in ServiceRecords :
        /\ found[p][r] + resolving[p][r] <= announced[p][r]
        /\ r.id = instance_id(p) => found[p][r] = 0

(* host 2 was announced under two instance ids and once more under the     *)
(* first: peer_found was emitted three times for this one host and port    *)
PeerFoundAgainForKnownHost ==
    /\ found[1][ServiceRecord(2, 1)] = 2
    /\ found[1][ServiceRecord(2, 2)] = 1
    /\ peerQ[1] = << >> /\ outSock[1][2] = "connected"

(* the step delivers a peer_found emission for host q to on_peer of p *)
OnPeerStep(p, q) ==
    /\ peerQ[p] # << >> /\ Head(peerQ[p]).host = q
    /\ peerQ'[p] = Tail(peerQ[p])

(* C15: whatever peer_found events arrive, every host and port is dialled  *)
(* at most once and has a connection exactly if it was dialled; a          *)
(* peer_found for a key that is present dials nothing and leaves every     *)
(* connection as it is.                                                    *)
OneDialPerKey ==
    [][\A p \in Nodes, q \in Nodes :
          /\ dials'[p][q] <= 1
          /\ dials'[p][q] = 0 <=> outSock'[p][q] = "absent"
          /\ OnPeerStep(p, q) /\ outSock[p][q] # "absent" =>
                UNCHANGED << outSock, dials, status, backlog >>
          /\ OnPeerStep(p, q) /\ outSock[p][q] = "absent" =>
                outSock'[p][q] = "connecting" /\ dials'[p][q] = 1]_vars

(* two peer_found events for host 2, under two instance ids, were          *)
(* delivered: it was dialled once and its connection is up, as is host 3's *)
SecondPeerFoundIgnored ==
    /\ found[1][ServiceRecord(2, 1)] = 1 /\ found[1][ServiceRecord(2, 2)] = 1
    /\ found[1][ServiceRecord(3, 1)] = 1
    /\ peerQ[1] = << >>
    /\ dials[1][2] = 1 /\ outSock[1][2] = "connected"
    /\ dials[1][3] = 1 /\ outSock[1][3] = "connected"

(* the record process p advertises itself *)
OwnRecord(p) == ServiceRecord(p, 1)

(* C16: however often the record with the local instance id is announced,  *)
(* no peer_found is emitted for it, none is queued for on_peer, and the    *)
(* process never dials itself.                                             *)
OwnRecordNeverFound ==
    \A p \in Nodes :
        /\ found[p][OwnRecord(p)] = 0
        /\ \A i \in 1..Len(peerQ[p]) : peerQ[p][i].id # instance_id(p)
        /\ outSock[p][p] = "absent" /\ dials[p][p] = 0

(* the own record was announced twice and resolved twice, another host's   *)
(* record once, and that host was dialled                                  *)
OwnRecordAnnouncedTwice ==
    /\ announced[1][OwnRecord(1)] = 2 /\ resolving[1][OwnRecord(1)] = 0
    /\ found[1][ServiceRecord(2, 1)] = 1 /\ outSock[1][2] = "connecting"

(* the step is the failure of p's dial to q or the loss of p's connection  *)
(* to q                                                                    *)
OutboundLost(p, q) ==
    /\ outSock[p][q] \in { "connecting", "connected" }
    /\ outSock'[p][q] = "unconnected"
(* the step is the loss of the connection a accepted from d *)
InboundLost(a, d) == InSeq(d, srvClients[a]) /\ ~InSeq(d, srvClients'[a])

(* C17, as claimed: a failed dial and a lost connection, inbound or        *)
(* outbound, emit a status event and dial nothing; the connection leaves   *)
(* the active set, so that a later peer_found for the same host and port   *)
(* opens a new connection to it.                                           *)
LostConnectionDialledAgainWhenFound ==
    [][\A p \in Nodes, q \in Nodes :
          /\ OutboundLost(p, q) \/ InboundLost(p, q) =>
                status'[p] # status[p] /\ dials' = dials
          /\ OnPeerStep(p, q) /\ outSock[p][q] = "unconnected" =>
                outSock'[p][q] = "connecting" /\ dials'[p][q] = dials[p][q] + 1]_vars

(* the step handles a line of process p that starts nothing: an            *)
(* unparseable line, a rejected message or a discarded trajectory          *)
FaultyLineStep(p) ==
    LineStep(p) /\ shots'[Len(shots')].st \in { "invalid", "rejected", "discarded" }
(* the shots that existed are as they were *)
ShotsUntouched ==
    /\ SubSeq(shots', 1, Len(shots)) = shots
    /\ UNCHANGED << active, deferred >>

(* C18: the handling of a lost connection, of a failed dial, of an         *)
(* unparseable line, of a rejected message or of a discarded trajectory    *)
(* leaves every other connection of the active sets and every shot that    *)
(* is scheduled or animating as it was.                                    *)
FaultsTouchNothingElse ==
    [][\A p \in Nodes :
          /\ FaultyLineStep(p) =>
                ShotsUntouched /\ UNCHANGED << outSock, srvClients, backlog >>
          /\ \A q \in Nodes : OutboundLost(p, q) =>
                /\ UNCHANGED << shots, active, deferred, srvClients, backlog >>
                /\ \A r \in Nodes \ { q } : outSock'[p][r] = outSock[p][r]
          /\ \A q \in Nodes : InboundLost(p, q) =>
                /\ UNCHANGED << shots, active, deferred, outSock, backlog >>
                /\ srvClients'[p] = RemoveFrom(srvClients[p], q)]_vars

(* a projectile of a well-formed line is animating, the line after it was  *)
(* dropped as a fault, the accepted connection was lost and removed, and   *)
(* the dialled connection is still up                                      *)
AnimatingThroughFaults ==
    /\ Len(shots) = 2 /\ shots[1].st = "live" /\ shots[1].age > 0
    /\ shots[2].st \in { "invalid", "rejected", "discarded" }
    /\ << 2, 1 >> \in dead /\ srvClients[1] = << >>
    /\ outSock[1][3] = "connected"

(***************************************************************************)
(* The launch message                                                      *)
(***************************************************************************)
(* the messages written to the connections and not yet read *)
InFlight ==
    UNION { { c2s[c][i] : i \in 1..Len(c2s[c]) } \cup { s2c[c][i] : i \in 1..Len(s2c[c]) } :
            c \in Conns }
(* the sender's exit boundary for message m, the time at which m's         *)
(* trajectory reaches it, and the lowest height reachable from there       *)
ExitBoundary(m) == IF m.direction = "right_to_left" THEN XExitLeft ELSE XExitRight
ExitState(m) ==
    LET t == ExitTime(m.sx, m.vx, ExitBoundary(m))
    IN  [y |-> PosY(m.sy, m.vy, m.g, t), vy |-> VelY(m.vy, m.g, t)]
MinReachable(m) == YMinExit(ExitState(m).y, ExitState(m).vy, m.g)
Dist(a, b) == IF a >= b THEN a - b ELSE b - a

(* C19: the land_ny of every launch message is at least the lowest height  *)
(* reachable from the exit state plus 0.02, and lies in [0.05, 0.95].      *)
LandingHeightReachable ==
    \A m \in InFlight :
        /\ Val(m.land_ny) >= MinReachable(m) + LandMargin
        /\ Val(m.land_ny) >= LandNyMin /\ Val(m.land_ny) <= LandNyMax

(* a right_to_left launch whose land_ny is exactly the lowest reachable    *)
(* height plus the margin, above the floor of 0.05                         *)
LandsAtLowestAllowed ==
    \E m \in InFlight :
        /\ m.direction = "right_to_left"
        /\ Val(m.land_ny) = MinReachable(m) + LandMargin
        /\ Val(m.land_ny) > LandNyMin

(* C20: the delay_ms of every launch message is a natural number, and at   *)
(* that many milliseconds x(t) = sx + vx*t is at the exit boundary, to     *)
(* within what the rounding to a millisecond allows.                       *)
DelayIsTimeToExit ==
    \A m \in InFlight :
        /\ ~IsNone(m.delay_ms) /\ Val(m.delay_ms) \in Nat
        /\ Dist(m.sx + FDiv(m.vx * Val(m.delay_ms), MsPerSec), ExitBoundary(m))
              <= Dist(m.vx, 0) \div (2 * MsPerSec) + 2

(* a left_to_right launch from mid-screen at the greatest speed: 0.55 / 1.15 *)
(* seconds, 478 ms                                                         *)
DelayOfFastLaunch ==
    \E m \in InFlight :
        /\ m.direction = "left_to_right" /\ m.sx = 5000 /\ m.vx = 11500
        /\ Val(m.delay_ms) = 478

(***************************************************************************)
(* Sender and receiver                                                     *)
(***************************************************************************)
(* the remote shots that stem from a launch of the model and reached       *)
(* shoot_projectile_remote_arrive past its sign test                       *)
Continued == { i \in ShotIds : /\ IsRemote(i) /\ shots[i].launch # 0
                               /\ shots[i].st \in { "scheduled", "discarded", "live" } }
(* the launch of remote shot i, and what its sender computed: lines        *)
(* 2846-2855 and 2887-2896                                                 *)
LaunchOf(i) == shots[shots[i].launch]
SenderExitBoundary(i) ==
    IF LaunchOf(i).dir = "right_to_left" THEN XExitLeft ELSE XExitRight
SenderExitTime(i) == ExitTime(LaunchOf(i).x0, LaunchOf(i).mvx, SenderExitBoundary(i))
SenderExitY(i) == PosY(LaunchOf(i).y0, LaunchOf(i).vy, LaunchOf(i).g, SenderExitTime(i))
SenderExitVy(i) == VelY(LaunchOf(i).vy, LaunchOf(i).g, SenderExitTime(i))
OppositeEdge(i) == IF LaunchOf(i).dir = "right_to_left" THEN XExitRight ELSE XExitLeft

ScreenExitTime(x0, vx, x_exit) == FDiv((x_exit - x0) * TimeRes, vx)

(* what the receiver computes for the line Scenario: exit time 0.55 s,     *)
(* 550 ms, exit state (0.2525, 0.1), start at x = -0.05, the larger and    *)
(* positive root of the landing equation, at which the height is 0.6 and   *)
(* x lies in the frame, before x = 1.05 is reached                         *)
ScenarioComputed ==
    LET a == CannonArrival(Scenario)
    IN  /\ ExitTime(Scenario.sx, Scenario.vx, XExitRight) = 5500
        /\ a.res = "spawn" /\ a.delay = 550
        /\ a.x0 = XExitLeft /\ a.y0 = 2525 /\ a.vy = 1000
        /\ a.t_solve = LandingRoot(a.y0, a.vy, a.g, Val(Scenario.land_ny))
        /\ a.t_solve > LandFloor /\ a.t_land = a.t_solve /\ a.t_end = a.t_land
        /\ Dist(PosY(a.y0, a.vy, a.g, a.t_land), Val(Scenario.land_ny)) <= 2
        /\ PosX(a.x0, a.vx, a.t_land) >= 0 /\ PosX(a.x0, a.vx, a.t_land) <= Unit
        /\ a.t_land < ScreenExitTime(a.x0, a.vx, XExitRight)

(* C22: the receiver of the line Scenario computes the exit time 0.55 s    *)
(* and the exit state (0.2525, 0.1), starts the projectile at x = -0.05    *)
(* towards the larger root of the landing equation for y = 0.6, and the    *)
(* projectile, running to its end, lands in the visible frame before       *)
(* x = 1.05 with an impact.                                                *)
ScenarioLandsWithImpact ==
    /\ [](ScenarioComputed /\
          \A i \in ShotIds :
              /\ shots[i].st \in { "scheduled", "live", "deleted" }
              /\ shots[i].x0 = XExitLeft /\ shots[i].y0 = 2525 /\ shots[i].vy = 1000
              /\ shots[i].t_end = shots[i].t_land /\ shots[i].t_end = shots[i].t_solve)
    /\ [][\A i \in ShotIds :
              (shots'[i].fin > shots[i].fin /\ shots[i].age >= shots[i].t_end)
                  => /\ shots'[i].imp = shots[i].imp + 1
                     /\ FinalInFrame(shots[i])]_vars

(* the projectile of the line has run to its landing time, finished and    *)
(* triggered its impact                                                    *)
ScenarioLanded ==
    \E i \in ShotIds :
        /\ IsRemote(i) /\ shots[i].st = "live" /\ shots[i].age >= shots[i].t_end
        /\ shots[i].fin = 1 /\ shots[i].imp = 1 /\ IsNone(shots[i].mdelay)

(***************************************************************************)
(* The landing solver                                                      *)
(***************************************************************************)
(* what stays of the height after rounding the time to the resolution of   *)
(* the model                                                               *)
HeightTolerance == 6
ReachesTarget(c) ==
    /\ c.t >= 0
    /\ Dist(PosY(c.y0, c.vy, c.g, c.t), c.y_land) <= HeightTolerance
(* the landing equation has a solution t >= 0 *)
HasSolutionAhead(y0, vy, g, y_land) ==
    IF g = 0
    THEN (vy = 0 /\ y0 = y_land) \/ (vy # 0 /\ FDiv(-(y0 - y_land) * TimeRes, vy) >= 0)
    ELSE LandingDisc(y0, vy, g, y_land) >= 0 /\ LandingRoot(y0, vy, g, y_land) >= 0

(* C23 as stated: whenever the landing equation has a real solution, the   *)
(* solver's time is >= 0 and the height at that time is the target.         *)
SolverReachesTargetIfReal ==
    ~IsNone(solved) =>
        (HasRealSolution(Val(solved).y0, Val(solved).vy, Val(solved).g, Val(solved).y_land)
            => ReachesTarget(Val(solved)))

(* C23: whenever the landing equation has a solution t >= 0, the solver's  *)
(* time is >= 0 and the height at that time is the target, for g = 0 (the  *)
(* linear solution) as for g # 0; the time is never negative.              *)
SolverReachesTargetIfAhead ==
    ~IsNone(solved) =>
        /\ Val(solved).t >= 0
        /\ HasSolutionAhead(Val(solved).y0, Val(solved).vy, Val(solved).g, Val(solved).y_land)
              => ReachesTarget(Val(solved))

(* rising from y = 1.0 through 0.6 and falling back through it: the solver *)
(* returns the second crossing, after 1 s                                  *)
SecondCrossingTaken ==
    /\ ~IsNone(solved)
    /\ Val(solved).y0 = 10000 /\ Val(solved).y_land = 6000
    /\ Val(solved).vy = -15000 /\ Val(solved).g = 20000
    /\ Val(solved).t > 10000 /\ ReachesTarget(Val(solved))

(***************************************************************************)
(* Fire lines and fields the receiver does not know                        *)
(***************************************************************************)
(* the step handles a fire line / a cannon line with sx and sy *)
ExplosionStep ==
    /\ Len(effects') > Len(effects)
    /\ effects'[Len(effects')].kind = "explosion"
RemoteStep ==
    /\ Len(shots') > Len(shots)
    /\ shots'[Len(shots')].kind = "remote"
FireLines == { m \in KnownLines : m.action = "fire" }
ArcLines == { m \in KnownLines : m.action = "cannon" /\ m.target = "arc" }

(* C24: handling a fire line, with or without unknown fields, is one       *)
(* show_explosion at its (x, y): no projectile is created or scheduled and *)
(* nothing is written to a connection; handling a cannon line with unknown *)
(* fields is handling the line without them.                               *)
FireShowsImpactOnly ==
    [][/\ ExplosionStep =>
            \E m \in FireLines :
                /\ effects' = Append(effects, Effect(1, "explosion", m.x, m.y))
                /\ UNCHANGED << shots, active, deferred, c2s, s2c >>
       /\ RemoteStep =>
            \E m \in ArcLines :
                /\ shots' = Append(shots, NewShot(1, "remote", m, Handled(m),
                                                  ArrivalState(Handled(m))))
                /\ UNCHANGED << effects, c2s, s2c >>]_vars

(* two fire lines have been handled while both connections were up: two    *)
(* impacts at (120, 340), no projectile, nothing in flight                 *)
TwoFireLinesHandled ==
    /\ effects = << Effect(1, "explosion", 120, 340), Effect(1, "explosion", 120, 340) >>
    /\ shots = << >> /\ active[1] = << >>
    /\ outSock[1][3] = "connected" /\ InSeq(2, srvClients[1])
    /\ \A c \in Conns : c2s[c] = << >> /\ s2c[c] = << >>

(***************************************************************************)
(* The one-shot timer of a remote shot                                     *)
(***************************************************************************)
(* the interval the timer of remote shot i is to run, in milliseconds: the *)
(* delay_ms of its line, 0 for a negative one, and for a line without one  *)
(* the exit time of the line's trajectory (that of Scenario)               *)
TimerInterval(i) ==
    IF IsNone(shots[i].mdelay)
    THEN ToMs(ExitTime(Scenario.sx, Scenario.vx, XExitRight))
    ELSE Max(0, Val(shots[i].mdelay))
Rendered(i) == shots[i].st \in { "live", "deleted" }

(* C25: a remote shot waits in a one-shot timer of delay_ms milliseconds   *)
(* (0 for a negative delay_ms, the receiver's exit time in milliseconds    *)
(* for an absent one) and is not rendered before that time has passed      *)
(* since its line was handled; a line handled while earlier shots wait     *)
(* starts a timer of its own and leaves theirs as they are.                *)
RenderedAfterDelay ==
    /\ [](\A i \in ShotIds :
            IsRemote(i) =>
                /\ shots[i].st = "scheduled" =>
                      shots[i].delay = Max(0, FromMs(TimerInterval(i)) - shots[i].waited)
                /\ Rendered(i) => shots[i].waited >= FromMs(TimerInterval(i)))
    /\ [][RemoteStep =>
             /\ \A i \in ShotIds : shots'[i] = shots[i]
             /\ shots'[Len(shots')].st = "scheduled"
             /\ shots'[Len(shots')].waited = 0
             /\ UNCHANGED << active, deferred >>]_vars

(* the line handled second, with a negative delay_ms, is rendered at once  *)
(* while the shot of the first line, without a delay_ms, still waits       *)
SecondLineRenderedDuringWait ==
    /\ Len(shots) = 2
    /\ shots[1].st = "scheduled" /\ IsNone(shots[1].mdelay)
    /\ shots[1].waited > 0 /\ shots[1].delay > 0
    /\ shots[2].st = "live" /\ shots[2].mdelay = Some(-200) /\ shots[2].waited = 0

(***************************************************************************)
(* The local exit animation                                                *)
(***************************************************************************)
(* the local shots that animate *)
Exiting == { i \in ShotIds : IsLocal(i) /\ shots[i].st # "rejected" }

(* C26: the local projectile of every launch runs with the vx of its       *)
(* message and from its origin, so that it reaches the exit boundary at    *)
(* the delay_ms of the message, to the millisecond, and there has the exit *)
(* state the receiver continues from.                                      *)
LocalExitMatchesBroadcast ==
    \A i \in Exiting :
        /\ shots[i].vx = shots[i].mvx
        /\ Dist(ToMs(shots[i].t_end), Val(shots[i].mdelay)) <= 1
        /\ \A j \in Continued :
              shots[j].launch = i =>
                  /\ shots[j].y0 = PosY(shots[i].y0, shots[i].vy, shots[i].g, shots[i].t_end)
                  /\ shots[j].vy = VelY(shots[i].vy, shots[i].g, shots[i].t_end)

(***************************************************************************)
(* Reachability of the transmitted landing height                          *)
(***************************************************************************)
(* the landing time the receiver's solver returns for message m *)
ReceiverLandingTime(m) ==
    _solve_landing_time(ExitState(m).y, ExitState(m).vy, m.g, LandY(m.land_ny, m.sy))

(* C27: for every launch message the receiver's solver returns a time      *)
(* t > 0 at which the trajectory continued from the exit state is at       *)
(* land_ny, and every remote shot of a launch has such a landing time, not *)
(* the fallback 0.                                                         *)
LandingHeightReachedAhead ==
    /\ \A m \in InFlight :
          /\ ReceiverLandingTime(m) > 0
          /\ Dist(PosY(ExitState(m).y, ExitState(m).vy, m.g, ReceiverLandingTime(m)),
                  Val(m.land_ny)) <= HeightTolerance
    /\ \A i \in Continued : shots[i].t_solve > 0

(***************************************************************************)
(* Who writes to the connections                                           *)
(***************************************************************************)
(* the step handles a received line: a shot record of a remote line or an  *)
(* effect is added                                                         *)
HandlingStep == RemoteStep \/ Len(effects') > Len(effects)
(* the step writes to a connection *)
WritingStep == c2s' # c2s \/ s2c' # s2c
(* queue q has grown by one line, that of the launch just made *)
OneLineOfLaunch(q, qq) ==
    /\ Len(qq) = Len(q) + 1 /\ SubSeq(qq, 1, Len(q)) = q
    /\ qq[Len(qq)].launch = Len(shots') /\ qq[Len(qq)].action = "cannon"

(* C28: a step that handles a received line, be it a cannon, fire, older   *)
(* or malformed one, writes to no connection; a step that writes is a      *)
(* local launch, which adds its one line, once, to connections and nothing *)
(* else.                                                                   *)
OnlyLaunchesWrite ==
    [][/\ HandlingStep => UNCHANGED << c2s, s2c >>
       /\ WritingStep =>
            /\ LaunchStep(1)
            /\ \A c \in Conns :
                  /\ c2s'[c] = c2s[c] \/ OneLineOfLaunch(c2s[c], c2s'[c])
                  /\ s2c'[c] = s2c[c] \/ OneLineOfLaunch(s2c[c], s2c'[c])]_vars

(* a launch has written its line to the dialled and to the accepted        *)
(* connection, and a cannon line handled afterwards has added nothing      *)
LineHandledAfterLaunch ==
    /\ Len(shots) = 2 /\ shots[1].kind = "local"
    /\ shots[2].kind = "remote" /\ shots[2].st = "scheduled"
    /\ Len(c2s[<< 1, 3 >>]) = 1 /\ Len(s2c[<< 2, 1 >>]) = 1

(***************************************************************************)
(* Closing the directory                                                   *)
(***************************************************************************)
(* C29: once close() has returned, peer_found is not emitted and no        *)
(* outbound connection is opened.                                          *)
NothingFoundAfterClose ==
    [][closed[1] => (found' = found /\ dials' = dials)]_vars


(***************************************************************************)
(* The lifecycle of the message server                                     *)
(***************************************************************************)
(* the step is a call of start(), of stop() *)
StartCall == calls'.n = calls.n + 1 /\ calls'.op = "start"
StopCall == calls'.n = calls.n + 1 /\ calls'.op = "stop"
(* the inbound connections of process 1 and what the server keeps of them *)
Inbound == { c \in Conns : c[2] = 1 }
Tracked == { srvClients[1][i] : i \in 1..Len(srvClients[1]) }
Accepted == { d \in Nodes : Status("server", "Client connected", d) \in status[1] }
Gone == { d \in Nodes : Status("server", "Client disconnected", d) \in status[1] }
ServerUntouched ==
    UNCHANGED << listening, srvClients, backlog, status, dead, c2s, s2c, outSock >>

(* C30: start() while listening changes nothing and returns true; stop()   *)
(* while listening disconnects and forgets every inbound connection and    *)
(* clears the flag, stop() while not listening changes nothing; the        *)
(* tracked clients are exactly the accepted connections that have neither  *)
(* disconnected nor been stopped, each once, so none is tracked while the  *)
(* server is stopped and a launch then writes to no inbound connection.    *)
ServerLifecycle ==
    /\ [](/\ Tracked = Accepted \ Gone
          /\ Cardinality(Tracked) = Len(srvClients[1])
          /\ ~listening[1] => srvClients[1] = << >>)
    /\ [][/\ (StartCall /\ listening[1]) => (calls'.ret /\ ServerUntouched)
          /\ (StopCall /\ ~listening[1]) => ServerUntouched
          /\ (StopCall /\ listening[1]) =>
                /\ ~listening'[1]
                /\ srvClients'[1] = << >>
                /\ \A d \in Tracked : << d, 1 >> \in dead'
          /\ (LaunchStep(1) /\ ~listening[1]) =>
                \A c \in Inbound : s2c'[c] = s2c[c]]_vars

(* process 1 has launched while its server was stopped, after a client it  *)
(* had accepted and had written to was disconnected by stop()              *)
LaunchedWhileStopped ==
    /\ ~listening[1]
    /\ calls.op = "stop"
    /\ \E i \in 1..Len(shots) : shots[i].kind = "local" /\ shots[i].proc = 1
    /\ \E d \in Accepted \cap Gone : << d, 1 >> \in dead /\ outSock[d][1] = "connected"
    /\ \E d \in Nodes : outSock[d][1] = "unconnected"

=============================================================================
